---- MODULE Spec2Model ----
(***************************************************************************)
(* State-machine models of the CS111 repository: the journaling V6 file    *)
(* system (P8: buffer cache, write-ahead log, replay, checkpoint) and the  *)
(* encrypted demand-paged mapping (P5: MCryptFile).                        *)
(***************************************************************************)
EXTENDS Integers, Sequences, FiniteSets, TLC

(***************************************************************************)
(* Bounds of the model.                                                    *)
(***************************************************************************)
NBlocks == 2
MaxVal == 1
NBuf == 1
MaxRecs == 6
LogBlocks == 2
PatchLen == 2
MaxLogLen == 3
\* lsn_t is uint32_t; the model keeps its modular arithmetic at this width.
LsnBits == 5
\* the depth to which the calls of begin() are nested
MaxNest == 2

(***************************************************************************)
(* Program constants and disk geometry (layout.hh, logentry.hh, log.cc).   *)
(***************************************************************************)
SECTOR_SIZE == 512
INODE_START_SECTOR == 2
BUF_SIZE == 8192
LsnMod == 2 ^ LsnBits
s_isize == 1
datastart == INODE_START_SECTOR + s_isize
s_fsize == datastart + NBlocks
DataBlocks == datastart .. (s_fsize - 1)
Vals == 0 .. MaxVal

badblock(blockno) == blockno < datastart \/ blockno >= s_fsize

l_hdrblock == s_fsize
l_mapsize == (s_fsize - datastart + (8 * SECTOR_SIZE - 1)) \div (8 * SECTOR_SIZE)
l_logsize == l_mapsize + LogBlocks
mapstart == l_hdrblock + 1
logstart == mapstart + l_mapsize
logend == logstart + l_logsize
logbytes == SECTOR_SIZE * (l_logsize - l_mapsize - 1)

\* Mutation: a comparison that accepts a distance of exactly half the range.
le_inclusive(a, b) == ((b - a) % LsnMod) <= LsnMod \div 2

\* V6Log::le: LSN a is earlier than or equal to LSN b, modulo 2^32.
le(a, b) ==
  LET half_range == (LsnMod - 1) \div 2
  IN ((b - a) % LsnMod) <= half_range

\* Bytes of the archived body of each entry type (archive() of each struct).
entry_nbytes(type) ==
  CASE type = "Begin" -> 0
    [] type = "Patch" -> 2 + 2 + 1 + PatchLen
    [] type = "BlockAlloc" -> 2 + 1
    [] type = "BlockFree" -> 2
    [] type = "Commit" -> 4
    [] type = "Rewind" -> 0

\* LogEntry::nbytes: sizeof(Header) + body + sizeof(Footer), padded structs.
nbytes(type) == 8 + entry_nbytes(type) + 8

\* LogEntry::save writes the header fields (4+1), the body, the footer (4+4).
save_bytes(type) == (4 + 1) + entry_nbytes(type) + (4 + 4)

reserve == nbytes("Rewind")

Min(S) == CHOOSE x \in S : \A y \in S : x <= y
Max(S) == CHOOSE x \in S : \A y \in S : x >= y

\* cache .. input: the journalled volume (P8).  mm, mh: the memory-mapped
\* encrypted files (P5) and the history of the accesses made through them.
\* ns: the name space of a mounted volume.  cc: a cache and the handles on its
\* entries.  al: the block trees of the inodes and the free map.  txs: the Tx
\* guards the callers of begin() hold, innermost last; a guard is TRUE when
\* its log_ is set.  sv: the superblock of a volume and the V6FS opened on it.
VARIABLES cache, vlog, disk, up, oracle, nlog, last, input, mm, mh, ns, cc, al, txs, sv,
          syn

varsJ == <<cache, vlog, disk, up, oracle, nlog, last, input, txs>>
varsM == <<mm, mh>>
vars == <<cache, vlog, disk, up, oracle, nlog, last, input, mm, mh, ns, cc, al, txs, sv,
          syn>>

(***************************************************************************)
(* Buffer cache (cache.hh, blockpath.cc).  A slot is unlinked from the     *)
(* index when id = 0.  lsn and val are kept at 0 whenever logged /         *)
(* initialized are false, since the code never reads them in that case.    *)
(***************************************************************************)
Slots == 1 .. NBuf

NoEntry ==
  [id |-> 0, val |-> 0, refcount |-> 0, initialized |-> FALSE,
   dirty |-> FALSE, logged |-> FALSE, lsn |-> 0]

EmptyCache == [ent |-> [i \in Slots |-> NoEntry], lru |-> [k \in 1 .. NBuf |-> k]]

Remove(s, x) == SelectSeq(s, LAMBDA y : y # x)

\* itree lookup index_[{dev, id}]: the slot bound to id, 0 if none.
index(c, id) ==
  IF \E i \in Slots : c.ent[i].id = id
  THEN CHOOSE i \in Slots : c.ent[i].id = id
  ELSE 0

touch(c, i) == [c EXCEPT !.lru = Append(Remove(c.lru, i), i)]

free_entry(c, i) ==
  [c EXCEPT !.ent[i] = [NoEntry EXCEPT !.refcount = c.ent[i].refcount],
            !.lru = <<i>> \o Remove(c.lru, i)]

can_evict(S, i) ==
  LET e == S.c.ent[i]
  IN IF e.refcount > 0 THEN FALSE
     ELSE IF ~e.logged THEN TRUE
     ELSE le(e.lsn, S.l.committed)

(***************************************************************************)
(* Handlers are written as functions on a record S that threads the        *)
(* in-memory state (c: cache, l: V6Log), the disk image d, and the list    *)
(* tr of disk writes the handler has issued so far.  S.fail is "throw"     *)
(* after a C++ exception and "abort" after a failed assert; S.ret carries  *)
(* a callee's return value.  History fields: cur is the logical metadata   *)
(* state the operations have produced, dur the state produced by the       *)
(* transactions whose LogCommit record has reached the disk, n the number  *)
(* of log records written, cp0 the index in tr where a checkpoint began,   *)
(* reuse whether an allocation returned a block whose free is not durable. *)
(* Where a handler goes on with the result of a call, the continuation is  *)
(* a local operator applied to the call.                                   *)
(***************************************************************************)
ZeroRec == [seq |-> 0, type |-> "", bn |-> 0, x |-> 0]

ZeroSnap == [kind |-> [b \in DataBlocks |-> "free"], val |-> [b \in DataBlocks |-> 0]]

NoEv ==
  [kind |-> "", pos |-> 0, rec |-> ZeroRec, snap |-> ZeroSnap, bn |-> 0,
   val |-> 0, map |-> {}, cp |-> 0, seq |-> 0, logged |-> FALSE, early |-> FALSE]

Overlap(x, pos, n) ==
  ~(x.pos + save_bytes(x.rec.type) <= pos \/ pos + n <= x.pos)

\* The effect of one disk write on the disk image (and on the history dur).
ApplyEv(dd, e) ==
  CASE e.kind = "log" ->
         [d |-> [dd.d EXCEPT !.log =
                   {x \in @ : ~Overlap(x, e.pos, save_bytes(e.rec.type))}
                   \cup {[pos |-> e.pos, rec |-> e.rec]}],
          dur |-> IF e.rec.type = "Commit" THEN e.snap ELSE dd.dur]
    [] e.kind = "blk" -> [dd EXCEPT !.d.blk[e.bn] = e.val]
    [] e.kind = "map" -> [dd EXCEPT !.d.map = e.map]
    [] e.kind = "hdr" -> [dd EXCEPT !.d.l_checkpoint = e.cp, !.d.l_sequence = e.seq]
    [] e.kind = "sb" -> [dd EXCEPT !.d.s_dirty = e.val]

RECURSIVE ApplyEvs(_, _)
ApplyEvs(dd, evs) ==
  IF evs = <<>> THEN dd ELSE ApplyEvs(ApplyEv(dd, Head(evs)), Tail(evs))

DiskWrite(S, e) ==
  IF S.fail # "" THEN S
  ELSE LET dd == ApplyEv([d |-> S.d, dur |-> S.dur], e)
       IN [S EXCEPT !.d = dd.d, !.dur = dd.dur, !.tr = Append(@, e)]

Throw(S) == IF S.fail # "" THEN S ELSE [S EXCEPT !.fail = "throw", !.ret = 0]
Abort(S) == IF S.fail # "" THEN S ELSE [S EXCEPT !.fail = "abort", !.ret = 0]

\* V6FS::writeblock / V6FS::readblock on a data-area block.
writeblock(S, blockno, val, logged, early) ==
  DiskWrite(S, [NoEv EXCEPT !.kind = "blk", !.bn = blockno, !.val = val,
                            !.logged = logged, !.early = early])

readblock(S, blockno) == S.d.blk[blockno]

(***************************************************************************)
(* FdWriter (bufio.cc): the log writer's buffer of records not yet written *)
(* to the disk.  Each buffered LogCommit carries, as history, the logical  *)
(* state it commits and the blocks its transaction freed.                  *)
(***************************************************************************)
upper_bound(pos) == (pos - (pos % BUF_SIZE)) + BUF_SIZE

\* pwrite of the buffered bytes: the records reach the disk in buffer order,
\* each replacing what it overlaps; dur follows the last LogCommit written.
pwrite_log(S, buf) ==
  LET n == Len(buf)
      ev(k) == [NoEv EXCEPT !.kind = "log", !.pos = buf[k].pos, !.rec = buf[k].rec,
                            !.snap = buf[k].snap]
      covers(k, x) == Overlap(x, buf[k].pos, save_bytes(buf[k].rec.type))
      item(k) == [pos |-> buf[k].pos, rec |-> buf[k].rec]
      commits == {k \in 1 .. n : buf[k].rec.type = "Commit"}
  IN IF S.fail # "" \/ n = 0 THEN S
     ELSE [S EXCEPT
             !.d.log = {x \in @ : \A k \in 1 .. n : ~covers(k, x)}
                       \cup {item(k) : k \in {j \in 1 .. n :
                                \A i \in j + 1 .. n : ~covers(i, item(j))}},
             !.dur = IF commits = {} THEN @ ELSE buf[Max(commits)].snap,
             !.tr = @ \o [k \in 1 .. n |-> ev(k)]]

w_flush(S) ==
  IF S.fail # "" \/ S.l.pos <= S.l.buf_start THEN S
  ELSE [pwrite_log(S, S.l.buf) EXCEPT !.l.buf = <<>>, !.l.buf_start = S.l.pos]

w_write(S, rec) ==
  LET n == save_bytes(rec.type)
      item == [pos |-> S.l.pos, rec |-> rec,
               snap |-> IF rec.type = "Commit" THEN S.cur ELSE ZeroSnap,
               freed |-> IF rec.type = "Commit" THEN S.l.freed ELSE <<>>]
      newpos == S.l.pos + n
      bound == upper_bound(S.l.buf_start)
      S1 == [S EXCEPT !.l.buf = Append(@, item), !.l.pos = newpos, !.n = @ + 1,
                      !.w = Append(@, rec.type), !.l.used = @ + n]
  IN IF S.fail # "" THEN S
     ELSE IF newpos % BUF_SIZE = 0 THEN w_flush(S1)
     ELSE IF newpos > bound
     THEN \* the bytes up to the BUF_SIZE boundary are written, the tail stays
          [pwrite_log(S, S.l.buf) EXCEPT !.l.buf = <<item>>, !.l.pos = newpos,
                                         !.l.buf_start = bound, !.n = @ + 1,
                                         !.w = Append(@, rec.type),
                                         !.l.used = @ + n]
     ELSE S1

w_seek(S, pos) ==
  LET lseek(S1) ==
        IF S1.fail # "" THEN S1 ELSE [S1 EXCEPT !.l.pos = pos, !.l.buf_start = pos]
  IN lseek(w_flush(S))

(***************************************************************************)
(* V6Log (log.cc).  History: used counts the bytes of the ring taken since *)
(* l_checkpoint, the tail skipped by a rewind included.                    *)
(***************************************************************************)
NoLog ==
  [in_tx |-> FALSE, sequence |-> 0, committed |-> 0, applied |-> 0,
   begin_sequence |-> 0, l_checkpoint |-> 0, l_sequence |-> 0, freemap |-> {},
   freed |-> <<>>, last_balloc |-> 0, pos |-> 0, buf_start |-> 0, buf |-> <<>>,
   open |-> FALSE, used |-> 0]

log(S, type, bn, x) ==
  LET seq1 == (S.l.sequence + 1) % LsnMod
      seq2 == (seq1 + 1) % LsnMod
      pos == S.l.pos
  IN IF S.fail # "" THEN S
     ELSE IF pos + reserve > logend * SECTOR_SIZE
     THEN LET S1 == w_write([S EXCEPT !.l.sequence = seq1],
                            [ZeroRec EXCEPT !.seq = seq1, !.type = "Rewind"])
              S2 == w_seek([S1 EXCEPT !.l.sequence = seq2,
                                      !.l.used = @ + (logend * SECTOR_SIZE - S1.l.pos)],
                           logstart * SECTOR_SIZE)
          IN w_write(S2, [seq |-> seq2, type |-> type, bn |-> bn, x |-> x])
     ELSE w_write([S EXCEPT !.l.sequence = seq1],
                  [seq |-> seq1, type |-> type, bn |-> bn, x |-> x])

\* Mutation: a begin() that does not look at in_tx_.
begin_unguarded(S) ==
  LET started(S1) ==
        IF S1.fail # "" THEN S1
        ELSE [S1 EXCEPT !.l.begin_sequence = S1.l.sequence, !.l.in_tx = TRUE,
                        !.g = Append(@, TRUE)]
  IN IF S.fail # "" THEN S ELSE started(log(S, "Begin", 0, 0))

\* The Tx returned is pushed on the guards of the caller.
begin(S) ==
  LET started(S1) ==
        IF S1.fail # "" THEN S1
        ELSE [S1 EXCEPT !.l.begin_sequence = S1.l.sequence, !.l.in_tx = TRUE,
                        !.g = Append(@, TRUE)]
  IN IF S.fail # "" THEN S
     ELSE IF S.l.in_tx THEN [S EXCEPT !.g = Append(@, FALSE)]
     ELSE started(log(S, "Begin", 0, 0))

\* Bitmap::find1: the first 1 bit at or after start, else the first 1 bit of
\* the whole map, -1 if no bit is set.
find1(freemap, start) ==
  IF freemap = {} THEN -1
  ELSE IF \E b \in freemap : b >= start
  THEN Min({b \in freemap : b >= start})
  ELSE Min(freemap)

balloc_near(S, near0, metadata) ==
  LET near == IF badblock(near0) THEN datastart ELSE near0
      bn == find1(S.l.freemap, near)
      S1 == [S EXCEPT !.l.freemap = @ \ {bn}, !.ret = bn]
  IN IF S.fail # "" THEN S
     ELSE IF bn < 0 THEN [S EXCEPT !.ret = 0]
     ELSE IF S.l.in_tx
     THEN [log(S1, "BlockAlloc", bn, IF metadata THEN 1 ELSE 0) EXCEPT !.ret = bn]
     ELSE S1

log_balloc(S, metadata) ==
  LET remember(S1) ==
        IF S1.fail # "" THEN S1 ELSE [S1 EXCEPT !.l.last_balloc = S1.ret]
  IN remember(balloc_near(S, S.l.last_balloc, metadata))

log_bfree(S, blockno) ==
  IF S.fail # "" THEN S
  ELSE IF ~S.l.in_tx THEN Abort(S)
  ELSE log([S EXCEPT !.l.freed = Append(@, blockno)], "BlockFree", blockno, 0)

\* Mutation of flush: committed_ advances although the buffer was not written.
flush_without_write(S) ==
  IF S.fail # "" THEN S
  ELSE [S EXCEPT !.l.committed =
          IF S.l.in_tx THEN S.l.begin_sequence ELSE S.l.sequence]

flush(S) ==
  LET advance(S1) ==
        IF S1.fail # "" THEN S1
        ELSE [S1 EXCEPT !.l.committed =
                IF S1.l.in_tx THEN S1.l.begin_sequence ELSE S1.l.sequence]
  IN advance(w_flush(S))

space(S) ==
  LET pos == S.l.pos
      cp == S.l.l_checkpoint
  IN IF cp >= pos THEN cp - pos
     ELSE IF logbytes - (pos - cp) >= 0 THEN logbytes - (pos - cp)
     \* uint32_t arithmetic: the negative difference wraps to a value above
     \* 2^31, represented by the largest integer of the model
     ELSE 2147483647

Range(f) == {f[k] : k \in DOMAIN f}

\* Blocks freed by transactions whose LogCommit is not yet on the disk.
UndurableFreed(S) ==
  Range(S.l.freed) \cup UNION {Range(S.l.buf[k].freed) : k \in 1 .. Len(S.l.buf)}

(***************************************************************************)
(* Cache operations that write back (blockpath.cc) and Buffer::bwrite.     *)
(***************************************************************************)
bwrite(S, i) ==
  LET e == S.c.ent[i]
      \* history: some log record with LSN <= lsn_ is still only buffered
      early == e.logged /\ \E k \in 1 .. Len(S.l.buf) : le(S.l.buf[k].rec.seq, e.lsn)
  IN IF S.fail # "" THEN S
     ELSE IF e.logged /\ ~le(e.lsn, S.l.committed) THEN Abort(S)
     \* pwrite returns an error on the blocks of S.bad: writeblock throws
     ELSE IF e.id \in S.bad THEN Throw(S)
     ELSE [writeblock(S, e.id, e.val, e.logged, early) EXCEPT
             !.c.ent[i].initialized = TRUE, !.c.ent[i].dirty = FALSE,
             !.c.ent[i].logged = FALSE, !.c.ent[i].lsn = 0]

Evictable(S, k) == S.c.ent[S.c.lru[k]].id = 0 \/ can_evict(S, S.c.lru[k])

alloc(S) ==
  LET cand == {k \in 1 .. Len(S.c.lru) : Evictable(S, k)}
      i == S.c.lru[Min(cand)]
      e == S.c.ent[i]
      unlink(S1) ==
        IF S1.fail # "" THEN S1
        ELSE [S1 EXCEPT !.c.ent[i] = [NoEntry EXCEPT !.refcount = e.refcount],
                        !.ret = i]
  IN IF S.fail # "" THEN S
     ELSE IF cand = {} THEN [S EXCEPT !.ret = 0]
     ELSE IF e.id = 0 THEN [S EXCEPT !.ret = i]
     ELSE unlink(IF e.dirty THEN bwrite(S, i) ELSE S)

flush_all_logs(S) == IF S.l.open THEN flush(S) ELSE S

lookup(S, id) ==
  LET i == index(S.c, id)
      retry(S1) ==
        IF S1.fail = "" /\ S1.ret = 0 THEN alloc(flush_all_logs(S1)) ELSE S1
      bind(S2) ==
        IF S2.fail # "" THEN S2
        ELSE IF S2.ret = 0
          THEN Throw([S2 EXCEPT !.broken = S2.promised > 0, !.promised = 0])
        ELSE [S2 EXCEPT !.c = touch([S2.c EXCEPT !.ent[S2.ret].id = id], S2.ret),
                        !.promised = IF @ > 0 THEN @ - 1 ELSE 0]
  IN IF S.fail # "" THEN S
     ELSE IF i # 0 THEN [S EXCEPT !.c = touch(S.c, i), !.ret = i]
     ELSE bind(retry(alloc(S)))

cache_free(S, id) ==
  LET i == index(S.c, id)
  IN IF S.fail # "" \/ i = 0 THEN S ELSE [S EXCEPT !.c = free_entry(S.c, i)]

can_alloc(S) ==
  LET avail(T) == \E k \in 1 .. Len(T.c.lru) : Evictable(T, k)
      again(S1) ==
        IF S1.fail # "" THEN S1
        ELSE [S1 EXCEPT !.ret = IF \E k \in 1 .. Len(S1.c.lru) : Evictable(S1, k)
                                THEN 1 ELSE 0]
  IN IF S.fail # "" THEN S
     ELSE IF avail(S) THEN [S EXCEPT !.ret = 1]
     ELSE again(flush_all_logs(S))

RECURSIVE flush_range(_, _)
flush_range(S, ids) ==
  IF ids = {} \/ S.fail # "" THEN S
  ELSE LET id == Min(ids)
           i == index(S.c, id)
           e == S.c.ent[i]
           \* catch (std::exception &): the entry stays as it is, ok = false
           caught(W) == IF W.fail = "throw" THEN S ELSE W
           S1 == IF e.dirty /\ (~e.logged \/ le(e.lsn, S.l.committed))
                 THEN caught(bwrite(S, i)) ELSE S
       IN flush_range(S1, ids \ {id})

flush_dev(S) == flush_range(S, {S.c.ent[i].id : i \in Slots} \ {0})

RECURSIVE invalidate_range(_, _)
invalidate_range(c, ids) ==
  IF ids = {} THEN c
  ELSE invalidate_range(free_entry(c, index(c, Min(ids))), ids \ {Min(ids)})

invalidate_dev(c) == invalidate_range(c, {c.ent[i].id : i \in Slots} \ {0})

(***************************************************************************)
(* V6FS (v6fs.cc).                                                         *)
(***************************************************************************)
sync(S) == flush_dev(S)

bread(S, blockno) ==
  LET fill(S1) ==
        IF S1.fail # "" THEN S1
        ELSE IF S1.c.ent[S1.ret].initialized THEN S1
        ELSE [S1 EXCEPT !.c.ent[S1.ret].val = readblock(S1, blockno),
                        !.c.ent[S1.ret].initialized = TRUE]
  IN fill(lookup(S, blockno))

bget(S, blockno) == lookup(S, blockno)

bdwrite(S, i) ==
  IF S.fail # "" THEN S
  ELSE [S EXCEPT !.c.ent[i].initialized = TRUE, !.c.ent[i].dirty = TRUE]

balloc(S, metadata) ==
  LET allocate(S1) ==
        IF S1.fail = "" /\ S1.ret = 0 THEN Throw(S1) ELSE log_balloc(S1, metadata)
      zero(S4, bn) ==
        IF S4.fail # "" THEN S4
        ELSE [bdwrite([S4 EXCEPT !.c.ent[S4.ret].val = 0], S4.ret) EXCEPT !.ret = bn]
      get(S2) ==
        IF S2.fail # "" THEN S2
        ELSE IF S2.ret = 0 THEN Throw(S2)
        ELSE zero(bget([S2 EXCEPT !.reuse = S2.ret \in UndurableFreed(S2)], S2.ret),
                  S2.ret)
  IN get(allocate(can_alloc(S)))

bfree(S, blockno) ==
  IF S.fail # "" THEN S
  ELSE IF badblock(blockno) THEN Throw(S)
  ELSE cache_free(log_bfree(S, blockno), blockno)

\* log_patch on the buffer in slot i, whose bytes the caller has just changed.
log_patch(S, i) ==
  LET stamp(S1) ==
        IF S1.fail # "" THEN S1
        ELSE [S1 EXCEPT !.c.ent[i].lsn = S1.l.sequence, !.c.ent[i].logged = TRUE]
  IN IF S.fail # "" THEN S
     ELSE IF ~S.l.open THEN [S EXCEPT !.c.ent[i].dirty = TRUE]
     ELSE IF ~S.l.in_tx THEN Abort([S EXCEPT !.c.ent[i].dirty = TRUE])
     ELSE stamp(log([S EXCEPT !.c.ent[i].dirty = TRUE], "Patch",
                    S.c.ent[i].id, S.c.ent[i].val))

\* Mutation of checkpoint: the header is written before the free map.
checkpoint_header_first(S) ==
  LET S0 == [S EXCEPT !.l.l_checkpoint = S.l.pos,
                      !.l.l_sequence = (S.l.sequence + 1) % LsnMod,
                      !.cp0 = Len(S.tr) + 1, !.l.used = 0]
      log_commit(S1) == log(S1, "Commit", 0, S1.l.sequence)
      applied(S4) ==
        IF S4.fail # "" THEN S4
        ELSE [S4 EXCEPT !.l.applied = S4.l.committed,
                        !.l.freemap = @ \cup Range(S4.l.freed),
                        !.l.freed = <<>>]
      write_freemap(S5) == DiskWrite(S5, [NoEv EXCEPT !.kind = "map", !.map = S5.l.freemap])
      write_hdr(S6) ==
        DiskWrite(S6, [NoEv EXCEPT !.kind = "hdr", !.cp = S6.l.l_checkpoint,
                                   !.seq = S6.l.l_sequence])
  IN IF S.fail # "" THEN S
     ELSE IF S.l.in_tx THEN Abort(S)
     ELSE write_freemap(write_hdr(
            applied(sync(flush(log_commit(log(S0, "Begin", 0, 0)))))))

checkpoint(S) ==
  LET S0 == [S EXCEPT !.l.l_checkpoint = S.l.pos,
                      !.l.l_sequence = (S.l.sequence + 1) % LsnMod,
                      !.cp0 = Len(S.tr) + 1, !.l.used = 0]
      log_commit(S1) == log(S1, "Commit", 0, S1.l.sequence)
      applied(S4) ==
        IF S4.fail # "" THEN S4
        ELSE [S4 EXCEPT !.l.applied = S4.l.committed,
                        !.l.freemap = @ \cup Range(S4.l.freed),
                        !.l.freed = <<>>]
      write_freemap(S5) == DiskWrite(S5, [NoEv EXCEPT !.kind = "map", !.map = S5.l.freemap])
      write_hdr(S6) ==
        DiskWrite(S6, [NoEv EXCEPT !.kind = "hdr", !.cp = S6.l.l_checkpoint,
                                   !.seq = S6.l.l_sequence])
  IN IF S.fail # "" THEN S
     ELSE IF S.l.in_tx THEN Abort(S)
     ELSE write_hdr(write_freemap(
            applied(sync(flush(log_commit(log(S0, "Begin", 0, 0)))))))

\* V6Log::commit with suppress_commit_ = false (log.hh: "leave it false");
\* timeout is the outcome of time(nullptr) > checkpoint_time_ + 30.
commit(S, timeout) ==
  LET maybe_checkpoint(S2) ==
        IF space(S2) < logbytes \div 2 \/ timeout THEN checkpoint(S2) ELSE S2
      committed(S1) ==
        IF S1.fail # "" THEN S1
        ELSE maybe_checkpoint([S1 EXCEPT !.l.freemap = @ \cup Range(S1.l.freed),
                                         !.l.freed = <<>>, !.l.in_tx = FALSE])
  IN committed(log(S, "Commit", 0, S.l.begin_sequence))

\* Tx::~Tx of the innermost guard.
Tx_dtor(S, timeout) ==
  LET popped == [S EXCEPT !.g = SubSeq(@, 1, Len(@) - 1)]
  IN IF S.fail # "" THEN S
     ELSE IF S.g[Len(S.g)] THEN commit(popped, timeout)
     ELSE popped

(***************************************************************************)
(* V6Replay (replay.cc).  r = [pos, sequence] is the reader position and   *)
(* the next expected LSN.  A position that holds no complete record with a *)
(* good checksum reads as log_corrupt.                                     *)
(***************************************************************************)
ReadAt(d, pos) ==
  IF \E x \in d.log : x.pos = pos
  THEN (CHOOSE x \in d.log : x.pos = pos).rec
  ELSE ZeroRec

\* the lambda `load` of read_next: LogEntry::load, then the sequence check
load(d, r) ==
  LET rec == ReadAt(d, r.pos)
  IN IF rec.type = "" \/ rec.seq # r.sequence
     THEN [ok |-> FALSE, rec |-> rec, pos |-> r.pos, sequence |-> r.sequence]
     ELSE [ok |-> TRUE, rec |-> rec, pos |-> r.pos + save_bytes(rec.type),
           sequence |-> (r.sequence + 1) % LsnMod]

read_next(d, r) ==
  LET rewind(a) ==
        IF a.ok /\ a.rec.type = "Rewind"
        THEN load(d, [a EXCEPT !.pos = logstart * SECTOR_SIZE])
        ELSE a
  IN rewind(load(d, r))

\* Mutation of the pre-scan: any LogCommit ends the transaction.
RECURSIVE scan_tx_any_commit(_, _, _)
scan_tx_any_commit(d, r, beginseq) ==
  LET step(a) ==
        IF ~a.ok THEN a
        ELSE IF a.rec.type = "Commit" THEN a
        ELSE scan_tx_any_commit(d, a, beginseq)
  IN step(read_next(d, r))

RECURSIVE scan_tx(_, _, _)
scan_tx(d, r, beginseq) ==
  LET step(a) ==
        IF ~a.ok THEN a
        ELSE IF a.rec.type = "Commit"
        THEN (IF a.rec.x # beginseq THEN [a EXCEPT !.ok = FALSE] ELSE a)
        ELSE scan_tx(d, a, beginseq)
  IN step(read_next(d, r))

\* Mutation of the pre-scan: a LogBegin is enough.
check_tx_begin_only(d, r) ==
  LET begun(a) ==
        IF ~a.ok \/ a.rec.type # "Begin" THEN [ok |-> FALSE, sequence |-> a.sequence]
        ELSE [ok |-> TRUE, sequence |-> r.sequence]
  IN begun(read_next(d, r))

\* Returns ok and the value sequence_ is left with; r_ is always reset.
check_tx(d, r) ==
  LET scanned(b) ==
        IF b.ok THEN [ok |-> TRUE, sequence |-> r.sequence]
        ELSE [ok |-> FALSE, sequence |-> b.sequence]
      begun(a) ==
        IF ~a.ok \/ a.rec.type # "Begin" THEN [ok |-> FALSE, sequence |-> a.sequence]
        ELSE scanned(scan_tx(d, a, a.rec.seq))
  IN begun(read_next(d, r))

apply(S, rec) ==
  LET patch(S1) ==
        IF S1.fail # "" THEN S1
        ELSE bdwrite([S1 EXCEPT !.c.ent[S1.ret].val = rec.x], S1.ret)
      allocated(S1) ==
        IF S1.fail # "" THEN S1
        ELSE [(IF rec.x # 0 THEN bdwrite([S1 EXCEPT !.c.ent[S1.ret].val = 0], S1.ret)
               ELSE S1)
              EXCEPT !.r.freemap = @ \ {rec.bn}]
  IN IF S.fail # "" THEN S
     ELSE CASE rec.type = "Patch" -> patch(bread(S, rec.bn))
            [] rec.type = "BlockAlloc" -> allocated(bread(S, rec.bn))
            [] rec.type = "BlockFree" -> [S EXCEPT !.r.freemap = @ \cup {rec.bn}]
            [] OTHER -> S

RECURSIVE apply_tx(_)
apply_tx(S) ==
  LET next(S1, type) == IF type = "Commit" THEN S1 ELSE apply_tx(S1)
      step(a) ==
        IF ~a.ok THEN Throw(S)
        ELSE next(apply([S EXCEPT !.r.pos = a.pos, !.r.sequence = a.sequence], a.rec),
                  a.rec.type)
  IN IF S.fail # "" THEN S ELSE step(read_next(S.d, S.r))

RECURSIVE replay_loop(_)
replay_loop(S) ==
  LET checked(c) ==
        IF c.ok THEN replay_loop(apply_tx([S EXCEPT !.r.sequence = c.sequence]))
        ELSE [S EXCEPT !.r.sequence = c.sequence]
  IN IF S.fail # "" THEN S ELSE checked(check_tx(S.d, S.r))

\* Mutation: the header is written before the cache is synced.
replay_header_first(S) ==
  LET S0 == [S EXCEPT !.r = [pos |-> S.d.l_checkpoint, sequence |-> S.d.l_sequence,
                             freemap |-> S.d.map]]
      write_freemap(S1) == DiskWrite(S1, [NoEv EXCEPT !.kind = "map", !.map = S1.r.freemap])
      write_hdr(S3) ==
        DiskWrite(S3, [NoEv EXCEPT !.kind = "hdr", !.cp = S3.r.pos, !.seq = S3.r.sequence])
  IN sync(write_hdr(write_freemap(replay_loop(S0))))

replay(S) ==
  LET S0 == [S EXCEPT !.r = [pos |-> S.d.l_checkpoint, sequence |-> S.d.l_sequence,
                             freemap |-> S.d.map]]
      write_freemap(S1) == DiskWrite(S1, [NoEv EXCEPT !.kind = "map", !.map = S1.r.freemap])
      write_hdr(S3) ==
        DiskWrite(S3, [NoEv EXCEPT !.kind = "hdr", !.cp = S3.r.pos, !.seq = S3.r.sequence])
  IN write_hdr(sync(write_freemap(replay_loop(S0))))

V6Log_ctor(S) ==
  IF S.fail # "" THEN S
  ELSE [S EXCEPT !.l =
          [NoLog EXCEPT !.open = TRUE,
                        !.sequence = (S.d.l_sequence - 1) % LsnMod,
                        !.committed = (S.d.l_sequence - 1) % LsnMod,
                        !.applied = (S.d.l_sequence - 1) % LsnMod,
                        !.l_checkpoint = S.d.l_checkpoint,
                        !.l_sequence = S.d.l_sequence,
                        !.freemap = S.d.map,
                        !.pos = S.d.l_checkpoint,
                        !.buf_start = S.d.l_checkpoint]]

\* V6FS::V6FS on a journaled volume: replay if unclean, open the log, mark dirty.
V6FS_ctor(S) ==
  LET S1 == IF S.d.s_dirty = 1 THEN replay(S) ELSE S
  IN DiskWrite(V6Log_ctor(S1), [NoEv EXCEPT !.kind = "sb", !.val = 1])

\* V6FS::~V6FS: checkpoint, close the log, mark clean, invalidate the cache.
V6FS_dtor(S) ==
  LET close(S2) ==
        IF S2.fail # "" THEN S2
        ELSE [S2 EXCEPT !.l = NoLog, !.c = invalidate_dev(S2.c)]
  IN close(DiskWrite(checkpoint(S), [NoEv EXCEPT !.kind = "sb", !.val = 0]))

(***************************************************************************)
(* The journaled file system as a state machine.  Every handler may be     *)
(* cut short by a crash after any of its disk writes; a crash keeps the    *)
(* disk and loses the memory.                                              *)
(***************************************************************************)
\* l_sequence is drawn at random by V6Log::create; the model starts just below
\* the wrap of lsn_t, so that the LSNs of a run cross it.
InitSequences == {LsnMod - 2}

NoOp ==
  [op |-> "init", tr |-> <<>>, cp0 |-> 0, reuse |-> FALSE, recs |-> <<>>,
   promised |-> 0, broken |-> FALSE]

Start ==
  [c |-> cache, l |-> vlog, d |-> disk, cur |-> oracle.cur, dur |-> oracle.dur,
   n |-> nlog, tr |-> <<>>, fail |-> "", ret |-> 0, cp0 |-> 0, reuse |-> FALSE,
   r |-> [pos |-> 0, sequence |-> 0, freemap |-> {}], g |-> txs, w |-> <<>>,
   promised |-> last.promised, broken |-> FALSE, bad |-> {}]

AbsTr(tr) ==
  [k \in 1 .. Len(tr) |->
     [kind |-> tr[k].kind, logged |-> tr[k].logged, early |-> tr[k].early]]

Crashed(S, j) ==
  LET dd == ApplyEvs([d |-> disk, dur |-> oracle.dur], SubSeq(S.tr, 1, j))
  IN /\ cache' = EmptyCache
     /\ vlog' = NoLog
     /\ disk' = dd.d
     /\ up' = FALSE
     /\ oracle' = [cur |-> dd.dur, dur |-> dd.dur]
     /\ nlog' = S.n
     /\ txs' = <<>>
     /\ UNCHANGED <<input, mm, mh, ns, cc, al, sv, syn>>
     /\ last' = [op |-> "crash", tr |-> AbsTr(SubSeq(S.tr, 1, j)),
                 cp0 |-> IF S.cp0 <= j THEN S.cp0 ELSE 0, reuse |-> FALSE,
                 recs |-> <<>>, promised |-> 0, broken |-> FALSE]

Done(S, op, cur, isup) ==
  IF S.fail = "abort" THEN Crashed(S, Len(S.tr))
  ELSE /\ cache' = S.c
       /\ vlog' = S.l
       /\ disk' = S.d
       /\ up' = isup
       /\ oracle' = [cur |-> IF S.fail = "" THEN cur ELSE S.cur, dur |-> S.dur]
       /\ nlog' = S.n
       /\ txs' = S.g
       /\ UNCHANGED <<input, mm, mh, ns, cc, al, sv, syn>>
       /\ last' = [op |-> IF S.fail = "" THEN op ELSE "error", tr |-> AbsTr(S.tr),
                   cp0 |-> S.cp0, reuse |-> S.reuse, recs |-> S.w,
                   promised |-> S.promised, broken |-> S.broken]

\* The handler ran to its end, or the machine crashed between two of its writes.
Outcome(S, op, cur, isup) ==
  /\ S.n <= MaxRecs
  /\ \/ Done(S, op, cur, isup)
     \/ \E j \in 1 .. Len(S.tr) - 1 : Crashed(S, j)

Begin ==
  /\ up /\ ~vlog.in_tx
  /\ Outcome(begin(Start), "begin", oracle.cur, TRUE)

\* A logged metadata update: bread, change the bytes, log_patch.
Patch(b, v) ==
  /\ up /\ vlog.in_tx /\ oracle.cur.kind[b] = "meta"
  /\ LET change(S1) ==
           IF S1.fail # "" THEN S1
           ELSE log_patch([S1 EXCEPT !.c.ent[S1.ret].val = v], S1.ret)
     IN Outcome(change(bread(Start, b)), "patch", [oracle.cur EXCEPT !.val[b] = v], TRUE)

Balloc(metadata) ==
  /\ up /\ vlog.in_tx
  /\ LET allocated(S) ==
           Outcome(S, "balloc",
                   [oracle.cur EXCEPT !.kind[S.ret] = IF metadata THEN "meta" ELSE "data",
                                      !.val[S.ret] = 0], TRUE)
     IN allocated(balloc(Start, metadata))

Bfree(b) ==
  /\ up /\ vlog.in_tx /\ oracle.cur.kind[b] # "free"
  /\ Outcome(bfree(Start, b), "bfree",
             [oracle.cur EXCEPT !.kind[b] = "free", !.val[b] = 0], TRUE)

\* Cursor::write into an allocated file block: bread, memcpy, bdwrite (unlogged).
\* File contents are no part of the journal's guarantees: every write stores 1
\* over the zeroes of a fresh block.
Write(b) ==
  /\ up /\ oracle.cur.kind[b] = "data"
  /\ LET store(S1) ==
           IF S1.fail # "" THEN S1
           ELSE bdwrite([S1 EXCEPT !.c.ent[S1.ret].val = 1], S1.ret)
     IN Outcome(store(bread(Start, b)), "write", oracle.cur, TRUE)

\* Tx::~Tx of the outermost guard
Commit(timeout) ==
  /\ up /\ vlog.in_tx /\ Len(txs) = 1
  /\ Outcome(Tx_dtor(Start, timeout), "commit", oracle.cur, TRUE)

\* begin() while a transaction is open, and the end of the scope of its guard
NestedBegin ==
  /\ up /\ vlog.in_tx /\ Len(txs) < MaxNest
  /\ Outcome(begin(Start), "begin", oracle.cur, TRUE)

NestedEnd ==
  /\ up /\ Len(txs) > 1
  /\ Outcome(Tx_dtor(Start, FALSE), "commit", oracle.cur, TRUE)

Unmount ==
  /\ up /\ ~vlog.in_tx
  /\ Outcome([V6FS_dtor(Start) EXCEPT !.c = EmptyCache, !.promised = 0],
             "unmount", oracle.cur, FALSE)

Mount ==
  /\ ~up
  /\ Outcome(V6FS_ctor(Start), "mount", oracle.cur, TRUE)

Crash ==
  /\ up
  /\ Crashed(Start, 0)

InitCur ==
  [kind |-> [b \in DataBlocks |-> IF b = datastart THEN "meta" ELSE "free"],
   val |-> [b \in DataBlocks |-> IF b = datastart THEN 1 ELSE 0]]

\* A volume made by mkfs and V6Log::create (root directory in the first data
\* block), just mounted.
InitJ ==
  /\ \E seq0 \in InitSequences :
       /\ disk = [blk |-> InitCur.val, log |-> {}, l_checkpoint |-> logstart * SECTOR_SIZE,
                  l_sequence |-> seq0, map |-> DataBlocks \ {datastart}, s_dirty |-> 1]
       /\ vlog = V6Log_ctor([l |-> NoLog, d |-> disk, fail |-> ""]).l
  /\ cache = EmptyCache
  /\ up = TRUE
  /\ oracle = [cur |-> InitCur, dur |-> InitCur]
  /\ nlog = 0
  /\ last = NoOp
  /\ txs = <<>>
  /\ input = <<>>
  /\ mm = <<>> /\ mh = <<>> /\ ns = <<>> /\ cc = <<>> /\ al = <<>> /\ sv = <<>> /\ syn = <<>>

NextJ ==
  \/ Begin
  \/ \E b \in DataBlocks, v \in 1 .. MaxVal : Patch(b, v)
  \/ \E m \in BOOLEAN : Balloc(m)
  \/ \E b \in DataBlocks : Bfree(b)
  \/ \E b \in DataBlocks : Write(b)
  \/ \E t \in BOOLEAN : Commit(t)
  \/ Unmount
  \/ Mount
  \/ Crash

SpecJ == InitJ /\ [][NextJ]_vars

\* A caller asks can_alloc() for one slot, as V6FS::balloc and fs_rmdir do
\* before they start to change the volume, and goes on if the answer is true.
\* History: promised counts the allocations the answer has vouched for and
\* that have not happened yet; lookup sets broken when it throws
\* resource_exhausted while promised is above zero.
CanAlloc ==
  /\ up /\ last.promised = 0
  /\ LET answer(S1) ==
           /\ S1.fail = "" /\ S1.ret = 1
           /\ Outcome([S1 EXCEPT !.promised = 1], "can_alloc", oracle.cur, TRUE)
     IN answer(can_alloc(Start))

NextK == NextJ \/ CanAlloc

SpecK == InitJ /\ [][NextK]_vars

\* The volume of InitJ after a first transaction that allocated a metadata
\* block (BlockAlloc with zero_on_replay) and freed it again, committed
\* without a checkpoint: the state the handlers produce from the fresh mount.
Fresh ==
  LET d0 == [blk |-> InitCur.val, log |-> {}, l_checkpoint |-> logstart * SECTOR_SIZE,
             l_sequence |-> LsnMod - 2, map |-> DataBlocks \ {datastart}, s_dirty |-> 1]
  IN [c |-> EmptyCache, l |-> V6Log_ctor([l |-> NoLog, d |-> d0, fail |-> ""]).l,
      d |-> d0, cur |-> InitCur, dur |-> InitCur, n |-> 0, tr |-> <<>>, fail |-> "",
      ret |-> 0, cp0 |-> 0, reuse |-> FALSE,
      r |-> [pos |-> 0, sequence |-> 0, freemap |-> {}], g |-> <<>>, w |-> <<>>,
      promised |-> 0, broken |-> FALSE, bad |-> {}]

FirstTx ==
  LET freed(S1) == bfree(S1, S1.ret)
  IN Tx_dtor(freed(balloc(begin(Fresh), TRUE)), FALSE)

InitV ==
  /\ cache = FirstTx.c
  /\ vlog = FirstTx.l
  /\ disk = FirstTx.d
  /\ up = TRUE
  /\ oracle = [cur |-> InitCur, dur |-> FirstTx.dur]
  /\ nlog = 0
  /\ last = NoOp
  /\ txs = FirstTx.g
  /\ input = <<>>
  /\ mm = <<>> /\ mh = <<>> /\ ns = <<>> /\ cc = <<>> /\ al = <<>> /\ sv = <<>> /\ syn = <<>>

SpecV == InitV /\ [][NextJ]_vars

\* A commit whose checkpoint meets a disk that refuses the writes to block b
\* (pwrite returns -1, as on a bad sector).
CommitWriteError(b) ==
  /\ up /\ vlog.in_tx /\ Len(txs) = 1
  /\ Outcome(Tx_dtor([Start EXCEPT !.bad = {b}], TRUE), "commit", oracle.cur, TRUE)

NextIO == NextJ \/ \E b \in DataBlocks : CommitWriteError(b)

SpecIO == InitJ /\ [][NextIO]_vars

\* C33: whenever the checkpoint of the on-disk log header is advanced, no
\* cache entry patched by a record with an LSN earlier than the new starting
\* sequence is still dirty and unwritten, entries whose write-back failed
\* included.
C33_CheckpointAfterWriteBack ==
  [][disk'.l_sequence # disk.l_sequence =>
       \A i \in Slots :
         ~(/\ cache'.ent[i].id # 0 /\ cache'.ent[i].dirty /\ cache'.ent[i].logged
           /\ cache'.ent[i].lsn # disk'.l_sequence
           /\ le(cache'.ent[i].lsn, disk'.l_sequence))]_vars

\* The data area and the free map an uninterrupted replay leaves on the image d
\* of a machine that is down (the cache is empty).
Replayed(d) ==
  LET image(S) == [blk |-> S.d.blk, map |-> S.d.map]
  IN image(replay([Start EXCEPT !.d = d]))

\* C34: replay is restartable: when the machine stops at a write of replay,
\* whether the image came from a crash inside a checkpoint or elsewhere,
\* replay from the on-disk header gives the same data area and free map as
\* the replay that was not interrupted would have given.
\* When the machine stops inside a checkpoint (or any handler) before the
\* header is written, the blocks and the free map already written change
\* neither the free map nor the metadata blocks that replay arrives at.
C34_ReplayRestartable ==
  [][/\ (~up /\ ~up') => Replayed(disk') = Replayed(disk)
     /\ (/\ up /\ ~up' /\ disk'.l_sequence = disk.l_sequence
         /\ disk'.l_checkpoint = disk.l_checkpoint) =>
          LET logonly == [disk' EXCEPT !.blk = disk.blk, !.map = disk.map]
              after(d) == replay([Start EXCEPT !.d = d, !.c = EmptyCache, !.l = NoLog]).d
              same(A, B) ==
                /\ A.map = B.map
                /\ \A b \in DataBlocks :
                     oracle'.dur.kind[b] = "meta" => A.blk[b] = B.blk[b]
          IN same(after(disk'), after(logonly))]_vars

\* a mount stopped inside replay, after the free map and a block were written
C34_Witness ==
  /\ ~up /\ last.op = "crash" /\ last.cp0 = 0 /\ Len(last.tr) >= 2
  /\ last.tr[1].kind = "map" /\ last.tr[2].kind = "blk"

\* Long runs of the log: transactions that patch the root directory block
\* 11 or 12 times (a transaction of 12 patches appends more than logbytes / 2
\* bytes), with no crash and no time-out of the checkpoint timer.  The LSNs
\* tell how many records the open transaction has appended.
MaxRun == 70
TxSizes == {11, 12}

TxLen == (vlog.sequence - vlog.begin_sequence) % LsnMod

LongBegin ==
  /\ up /\ ~vlog.in_tx /\ nlog < MaxRun
  /\ Done(begin(Start), "begin", oracle.cur, TRUE)

LongPatch ==
  /\ up /\ vlog.in_tx /\ TxLen < Max(TxSizes)
  /\ LET change(S1) ==
           IF S1.fail # "" THEN S1
           ELSE log_patch([S1 EXCEPT !.c.ent[S1.ret].val = 1], S1.ret)
     IN Done(change(bread(Start, datastart)), "patch",
             [oracle.cur EXCEPT !.val[datastart] = 1], TRUE)

LongCommit ==
  /\ up /\ vlog.in_tx /\ TxLen \in TxSizes
  /\ Done(Tx_dtor(Start, FALSE), "commit", oracle.cur, TRUE)

NextW == LongBegin \/ LongPatch \/ LongCommit

SpecW == InitJ /\ [][NextW]_vars

\* The same program with nested calls of begin().
NextT ==
  \/ NextJ
  \/ NestedBegin
  \/ NestedEnd

SpecT == InitJ /\ [][NextT]_vars

(***************************************************************************)
(* Properties of the journal.                                              *)
(***************************************************************************)
DiskMatches(snap) ==
  /\ \A b \in DataBlocks : snap.kind[b] = "meta" => disk.blk[b] = snap.val[b]
  /\ disk.map = {b \in DataBlocks : snap.kind[b] = "free"}

\* C1: after a crash at any log or block write, the mount that replays the
\* log leaves the metadata blocks and the free map exactly as produced by
\* the transactions whose LogCommit record had reached the disk.
C1_ReplayExact == last.op = "mount" => DiskMatches(oracle.dur)

\* C2: a block written to the disk from a cache entry with logged_ set and
\* lsn_ = L is never written while a log record with LSN <= L is still only
\* in the log writer's buffer.
C2_WriteAheadOrder ==
  \A k \in 1 .. Len(last.tr) : last.tr[k].kind = "blk" => ~last.tr[k].early

C2_Witness ==
  \E k \in 1 .. Len(last.tr) : last.tr[k].kind = "blk" /\ last.tr[k].logged

\* C6: an allocation never returns a block freed by a transaction whose
\* LogCommit record is not yet on the disk.
C6_NoReuseBeforeDurable == ~last.reuse

\* The disk writes of the last checkpoint, from its first write on.
CpTr == IF last.cp0 = 0 THEN <<>> ELSE SubSeq(last.tr, last.cp0, Len(last.tr))

Phase(kind) ==
  CASE kind = "log" -> 1
    [] kind = "blk" -> 2
    [] kind = "map" -> 3
    [] kind = "hdr" -> 4
    [] kind = "sb" -> 5

\* C7: in every checkpoint the log-header write comes last: after the log
\* flush, after the write-back of the dirty cache entries and after the
\* free-map write, in this order.
C7_HeaderLast ==
  /\ \A i, j \in 1 .. Len(CpTr) : i < j => Phase(CpTr[i].kind) <= Phase(CpTr[j].kind)
  /\ \A j \in 1 .. Len(CpTr) :
       CpTr[j].kind = "hdr" =>
         /\ \E i \in 1 .. j - 1 : CpTr[i].kind = "map"
         /\ \E i \in 1 .. j - 1 : CpTr[i].kind = "log"
         /\ \A i \in 1 .. Len(CpTr) : CpTr[i].kind = "hdr" => i = j

C7_Witness ==
  /\ \E j \in 1 .. Len(CpTr) : CpTr[j].kind = "hdr"
  /\ \E j \in 1 .. Len(CpTr) : CpTr[j].kind = "blk" /\ CpTr[j].logged

(***************************************************************************)
(* Replay of an arbitrary log.  The volume was not cleanly unmounted and   *)
(* its log area holds any sequence of at most MaxLogLen records: well      *)
(* formed ones, a record with a wrong LSN (seqok = FALSE), a torn record   *)
(* (type ""), LogCommit records naming the record x places earlier.        *)
(***************************************************************************)
InputRecs ==
  {[type |-> "Begin", bn |-> 0, x |-> 0, seqok |-> TRUE],
   [type |-> "Rewind", bn |-> 0, x |-> 0, seqok |-> TRUE],
   [type |-> "", bn |-> 0, x |-> 0, seqok |-> TRUE],
   [type |-> "Commit", bn |-> 0, x |-> 1, seqok |-> FALSE]}
  \cup {[type |-> "Patch", bn |-> b, x |-> v, seqok |-> TRUE] :
          b \in DataBlocks, v \in 1 .. MaxVal}
  \cup {[type |-> "BlockAlloc", bn |-> b, x |-> z, seqok |-> TRUE] :
          b \in DataBlocks, z \in {0, 1}}
  \cup {[type |-> "BlockFree", bn |-> b, x |-> 0, seqok |-> TRUE] : b \in DataBlocks}
  \cup {[type |-> "Commit", bn |-> 0, x |-> k, seqok |-> TRUE] : k \in 1 .. MaxLogLen - 1}

\* The replay starts in the middle of the log area, so that the records that
\* follow a LogRewind lie at its start.
InputCheckpoint == logstart * SECTOR_SIZE + logbytes \div 2

RECURSIVE Layout(_, _, _, _)
Layout(recs, k, pos, seq) ==
  IF k > Len(recs) THEN {}
  ELSE LET r == recs[k]
           rec == [seq |-> IF r.seqok THEN seq ELSE (seq + 3) % LsnMod,
                   type |-> r.type, bn |-> r.bn,
                   x |-> IF r.type = "Commit" THEN (seq - r.x) % LsnMod ELSE r.x]
           next == IF r.type = "Rewind" THEN logstart * SECTOR_SIZE
                   ELSE pos + save_bytes(IF r.type = "" THEN "Begin" ELSE r.type)
       IN (IF r.type = "" THEN {} ELSE {[pos |-> pos, rec |-> rec]})
          \cup Layout(recs, k + 1, next, (seq + 1) % LsnMod)

\* The log holds up to MaxLogLen records, and possibly one more that fails
\* validation after them.
InitR ==
  /\ \E n \in 0 .. MaxLogLen :
       \E body \in [1 .. n -> InputRecs],
          tail \in {<<>>} \cup {<<x>> : x \in {y \in InputRecs : y.type = "" \/ ~y.seqok}} :
         input = body \o tail
  /\ Cardinality({k \in DOMAIN input : input[k].type = "Rewind"}) <= 1
  /\ \E seq0 \in InitSequences :
       disk = [blk |-> InitCur.val, log |-> Layout(input, 1, InputCheckpoint, seq0),
               l_checkpoint |-> InputCheckpoint, l_sequence |-> seq0,
               map |-> DataBlocks \ {datastart}, s_dirty |-> 1]
  /\ vlog = NoLog
  /\ cache = EmptyCache
  /\ up = FALSE
  /\ oracle = [cur |-> InitCur, dur |-> InitCur]
  /\ nlog = 0
  /\ last = NoOp
  /\ txs = <<>>
  /\ mm = <<>> /\ mh = <<>> /\ ns = <<>> /\ cc = <<>> /\ al = <<>> /\ sv = <<>> /\ syn = <<>>

NextR ==
  \/ Mount
  \/ Crash

SpecR == InitR /\ [][NextR]_vars

\* What the claim prescribes, on the list of records: a transaction is a
\* Begin, then valid records, then the first Commit, which must name the
\* Begin; the transactions are applied in order up to the first that fails.
\* A LogRewind only moves the reader and belongs to no transaction.
ValidRec(r) == r.type # "" /\ r.seqok

TxBegin(recs, k) ==
  IF k <= Len(recs) /\ ValidRec(recs[k]) /\ recs[k].type = "Rewind" THEN k + 1 ELSE k

TxEnd(recs, k0) ==
  LET k == TxBegin(recs, k0)
      commits == {j \in k + 1 .. Len(recs) : recs[j].type = "Commit" /\ recs[j].seqok}
      j == Min(commits)
  IN IF k > Len(recs) \/ ~ValidRec(recs[k]) \/ recs[k].type # "Begin" THEN 0
     ELSE IF commits = {} THEN 0
     ELSE IF (\A i \in k .. j : ValidRec(recs[i])) /\ recs[j].x = j - k THEN j
     ELSE 0

RefApply(st, r) ==
  CASE r.type = "Patch" -> [st EXCEPT !.blk[r.bn] = r.x]
    [] r.type = "BlockAlloc" ->
         [st EXCEPT !.map = @ \ {r.bn}, !.blk[r.bn] = IF r.x # 0 THEN 0 ELSE @]
    [] r.type = "BlockFree" -> [st EXCEPT !.map = @ \cup {r.bn}]
    [] OTHER -> st

RECURSIVE RefApplyRange(_, _, _, _)
RefApplyRange(st, recs, i, j) ==
  IF i > j THEN st ELSE RefApplyRange(RefApply(st, recs[i]), recs, i + 1, j)

RECURSIVE RefReplay(_, _, _)
RefReplay(st, recs, k) ==
  IF TxEnd(recs, k) = 0 THEN st
  ELSE RefReplay(RefApplyRange(st, recs, TxBegin(recs, k) + 1, TxEnd(recs, k) - 1),
                 recs, TxEnd(recs, k) + 1)

RefImage == RefReplay([blk |-> InitCur.val, map |-> DataBlocks \ {datastart}], input, 1)

\* C3: replay applies the records of a transaction only if the pre-scan finds
\* a Begin, then only valid records, then a Commit whose sequence field is
\* the Begin's LSN; otherwise none of its records is applied and the image
\* is the one before its Begin.
C3_AllOrNothing ==
  last.op = "mount" => disk.blk = RefImage.blk /\ disk.map = RefImage.map

\* a Begin, a patch and a Commit that names another record: nothing applied
C3_Witness ==
  /\ last.op = "mount"
  /\ Len(input) >= 3 /\ input[1].type = "Begin" /\ TxEnd(input, 1) = 0
  /\ \E i, j \in DOMAIN input :
       /\ i < j /\ input[j].type = "Commit" /\ input[j].seqok
       /\ input[i].type = "Patch" /\ disk.blk[input[i].bn] # input[i].x

\* C17: when replay meets a record that fails validation (checksum, header
\* and footer, expected sequence, type tag) or the end of the log, it
\* terminates normally: no error reaches the caller, the effects of the
\* transactions validated before that point are kept, and the finalisation
\* is done: the freemap is written, the cache is synced and the log header is
\* updated last.
C17_ReplayStopsQuietly ==
  /\ last.op # "error"
  /\ (~up /\ disk.s_dirty = 1) => replay(Start).fail = ""
  /\ last.op = "mount" =>
        /\ disk.blk = RefImage.blk /\ disk.map = RefImage.map
        /\ \E m, h \in DOMAIN last.tr :
              /\ m < h /\ last.tr[m].kind = "map" /\ last.tr[h].kind = "hdr"
              /\ \A k \in DOMAIN last.tr :
                    /\ last.tr[k].kind = "blk" => m < k /\ k < h
                    /\ last.tr[k].kind \in {"map", "hdr"} => k \in {m, h}
        /\ \A i \in Slots : ~cache.ent[i].dirty

\* a transaction with a patch was applied and kept, and a record that fails
\* validation follows its LogCommit
C17_Witness ==
  /\ last.op = "mount" /\ TxEnd(input, 1) # 0
  /\ \E k \in DOMAIN input : k > TxEnd(input, 1) /\ ~ValidRec(input[k])
  /\ \E i \in DOMAIN input :
       /\ i < TxEnd(input, 1) /\ input[i].type = "Patch"
       /\ disk.blk[input[i].bn] = input[i].x /\ InitCur.val[input[i].bn] # input[i].x

NoRewind(recs) == SelectSeq(recs, LAMBDA t : t # "Rewind")

\* C18: for any nesting of begin() calls, one Begin and one Commit record are
\* appended per outermost transaction: a begin() issued while a transaction is
\* open appends nothing and returns a guard whose destruction appends nothing;
\* the outermost begin() appends the Begin, and the destruction of the
\* outermost guard appends the Commit, which ends the transaction (what may
\* follow it is the null transaction of a checkpoint).
C18_OneBeginOneCommit ==
  [][/\ last'.op = "begin" =>
          IF vlog.in_tx
          THEN /\ last'.recs = <<>> /\ vlog' = vlog /\ disk' = disk /\ nlog' = nlog
               /\ txs' = Append(txs, FALSE)
          ELSE /\ NoRewind(last'.recs) = <<"Begin">> /\ vlog'.in_tx
               /\ txs = <<>> /\ txs' = <<TRUE>>
     /\ last'.op = "commit" =>
          IF Len(txs) > 1
          THEN /\ last'.recs = <<>> /\ vlog' = vlog /\ disk' = disk /\ nlog' = nlog
               /\ ~txs[Len(txs)] /\ txs' = SubSeq(txs, 1, Len(txs) - 1)
          ELSE /\ txs = <<TRUE>> /\ txs' = <<>> /\ ~vlog'.in_tx
               /\ NoRewind(last'.recs) \in {<<"Commit">>, <<"Commit", "Begin", "Commit">>}]_vars

\* a nested guard has been destroyed, after records were logged under it, and
\* the transaction is still open
C18_Witness ==
  /\ last.op = "commit" /\ last.recs = <<>> /\ vlog.in_tx /\ txs = <<TRUE>>
  /\ \E k \in DOMAIN vlog.buf : vlog.buf[k].rec.type \in {"Patch", "BlockAlloc"}

\* C22: once can_alloc(n) has returned true, each of the next n lookups of a
\* block that is not in the cache obtains a slot and none of them throws
\* resource_exhausted, also when the lookups happen inside a transaction that
\* patches and logs cached blocks between them.
C22_PromisedSlots == ~last.broken

\* C28: replay never replaces the contents of a block with older logged
\* contents: a block that the last durable commit holds as a file data block
\* (allocated by a committed transaction after an earlier one had zeroed or
\* patched it and it had been freed) has after the replay the contents the
\* disk held before it.
C28_ReplayKeepsData ==
  [][last'.op = "mount" =>
       \A b \in DataBlocks :
         oracle'.dur.kind[b] = "data" => disk'.blk[b] = disk.blk[b]]_vars

\* C29: appending a record never overwrites bytes of the ring that lie between
\* the checkpoint and the end of the log: the records appended since the
\* checkpoint never take more than the ring holds, also when one transaction
\* appends more than half of logbytes.
C29_NoOverwrite ==
  vlog.open => vlog.used <= (logend - logstart) * SECTOR_SIZE

\* C30: a Rewind record is appended only between transactions: the record
\* that follows a Rewind is a Begin, wherever the write position is when the
\* records of a transaction are appended.
C30_RewindBetweenTx ==
  \A k \in 1 .. Len(last.recs) :
    last.recs[k] = "Rewind" => k < Len(last.recs) /\ last.recs[k + 1] = "Begin"

\* Long runs with V6Log::flush between transactions (fsync, or a cache that
\* runs out of slots) and with a clean unmount followed by a mount, which
\* reopens the log at the checkpoint of the header.
LongFlush ==
  /\ up /\ ~vlog.in_tx /\ vlog.buf # <<>>
  /\ Done(flush(Start), "flush", oracle.cur, TRUE)

LongUnmount ==
  /\ up /\ ~vlog.in_tx /\ nlog < MaxRun
  /\ Done([V6FS_dtor(Start) EXCEPT !.c = EmptyCache, !.promised = 0],
          "unmount", oracle.cur, FALSE)

LongMount ==
  /\ ~up
  /\ Done(V6FS_ctor(Start), "mount", oracle.cur, TRUE)

NextX == NextW \/ LongFlush \/ LongUnmount \/ LongMount

SpecX == InitJ /\ [][NextX]_vars

\* The reader positions replay passes between transactions when it starts
\* from r: r itself, and the end of every transaction that check_tx accepts.
RECURSIVE ValidEnds(_, _)
ValidEnds(d, r) ==
  LET b == read_next(d, r)
      after(c) ==
        IF c.ok THEN ValidEnds(d, [pos |-> c.pos, sequence |-> c.sequence]) ELSE {}
  IN {r} \cup (IF ~check_tx(d, r).ok THEN {} ELSE after(scan_tx(d, b, b.rec.seq)))

\* C32: once the log is flushed after crash-free transactions, replay from the
\* checkpoint and sequence of the on-disk header accepts every transaction
\* appended since that checkpoint: it arrives at the writer's position with
\* the writer's next LSN, across a reopened log and across a ring wrap.
C32_ReplayAcceptsAll ==
  (up /\ vlog.open /\ ~vlog.in_tx /\ vlog.buf = <<>>) =>
    [pos |-> vlog.pos, sequence |-> (vlog.sequence + 1) % LsnMod]
      \in ValidEnds(disk, [pos |-> disk.l_checkpoint, sequence |-> disk.l_sequence])

\* The records appended so far: those on the disk and those still buffered.
Appended ==
  disk.log \cup {[pos |-> vlog.buf[k].pos, rec |-> vlog.buf[k].rec] :
                   k \in 1 .. Len(vlog.buf)}

\* C31: every byte of every appended record, Rewind records included, lies
\* inside the log ring: at an offset >= logstart and below logstart plus
\* l_logsize - l_mapsize - 1 sectors.
C31_RecordsInsideRing ==
  \A x \in Appended :
    /\ x.pos >= logstart * SECTOR_SIZE
    /\ x.pos + save_bytes(x.rec.type) <= logstart * SECTOR_SIZE + logbytes

(***************************************************************************)
(* Memory-mapped encrypted files (P5: crypto.cc, vm.cc, mcryptfile.cc).    *)
(* Sizes, offsets and addresses count pages, and a page holds one value.   *)
(* A ciphertext is the term of its plaintext, key and tweak: decryption    *)
(* gives the plaintext back under the same key at the same offset, and     *)
(* garbage otherwise, as it does for the zeroes of a hole in the file.     *)
(* The tables of mcryptfile.cc are static members: there is one page_env_, *)
(* v2p_, ppage2file_ and LRU list for all the files.                       *)
(***************************************************************************)
MFiles == 2
MPages == 2
PoolMax == 2
MVal == 1
IOCap == 1

Files == 1 .. MFiles
PageNos == 0 .. MPages - 1
PPages == 1 .. PoolMax

\* A virtual page is named by the file of its region and its number there.
VPages == Files \X PageNos

\* Regions lie Span pages apart; the region in slot s starts at s * Span.
Span == MPages

Garbage == MVal + 1
Hole == [k |-> 0, at |-> 0, v |-> 0]
NoMapping == [pa |-> 0, prot |-> "NONE"]
NoObj == [vir_mem |-> FALSE, slot |-> 0, npages |-> 0, map_size |-> 0]

\* XEX: the tweak is derived from the block number, the key is the file's.
encrypt(f, v, off) == [k |-> f, at |-> off, v |-> v]
decrypt(f, c, off) == IF c.k = f /\ c.at = off THEN c.v ELSE Garbage

\* map_base_ is nullptr (0) while the file is not mapped.
map_base(M, f) == M.obj[f].slot * Span
Addr(M, vp) == map_base(M, vp[1]) + vp[2]

\* pread returns 0 at or past the end of the file and the destination keeps
\* its zeroes; otherwise the page is decrypted.
aligned_pread(M, f, off) ==
  IF off < 0 \/ off >= M.file[f].size THEN 0
  ELSE decrypt(f, M.file[f].cell[off], off)

\* pwrite fails on an offset that is negative as an off_t, and the result is
\* ignored.  A write past the pages of the model only grows the file.
\* pwrite_bytes grows by a page at every call; the model counts up to IOCap.
aligned_pwrite(M, f, v, off) ==
  LET counted(M1) == [M1 EXCEPT !.file[f].pwrite_bytes = Min({@ + 1, IOCap})]
  IN IF off < 0 THEN counted(M)
     ELSE IF off >= MPages
     THEN counted([M EXCEPT !.file[f].far = TRUE, !.file[f].size = MPages])
     ELSE counted([M EXCEPT !.file[f].cell[off] = encrypt(f, v, off),
                            !.file[f].size = Max({@, off + 1})])

\* phy_mem_ is nullptr once the pool has been deleted.
page_alloc(M) ==
  IF M.fail # "" THEN M
  ELSE IF ~M.phy_mem THEN Abort(M)
  ELSE IF M.free = <<>> THEN [M EXCEPT !.ret = 0]
  ELSE IF M.refcount[Head(M.free)] # -1 THEN Abort(M)
  ELSE [M EXCEPT !.free = Tail(@), !.refcount[Head(M.free)] = 0, !.ret = Head(M.free)]

\* The assertion fails on a page that is free already or still mapped, and
\* bad_free remembers that it did.  The page keeps its contents behind the
\* link of the free list, which is null in the last page of the list.
page_free(M, p) ==
  IF M.fail # "" THEN M
  ELSE IF M.refcount[p] # 0 THEN [Abort(M) EXCEPT !.bad_free = TRUE]
  ELSE [M EXCEPT !.refcount[p] = -1, !.free = <<p>> \o @]

\* VMRegion::map and VMRegion::update
VMRegion_map(M, vp, pa, prot) ==
  LET old == M.pagemap[vp]
  IN IF M.fail # "" \/ old = [pa |-> pa, prot |-> prot] THEN M
     ELSE IF pa # old.pa
       THEN IF M.refcount[pa] < 0 THEN Abort(M)
            ELSE [M EXCEPT !.refcount = [p \in PPages |->
                                           IF p = pa THEN @[p] + 1
                                           ELSE IF p = old.pa THEN @[p] - 1 ELSE @[p]],
                           !.pagemap[vp] = [pa |-> pa, prot |-> prot]]
     ELSE [M EXCEPT !.pagemap[vp].prot = prot]

\* VMRegion::unmap and VMRegion::update, called on the region of file r: the
\* pagemap_ of a region holds the pages of that region only, and a page of
\* another region is not found there.
VMRegion_unmap(M, r, vp) ==
  IF M.fail # "" \/ vp[1] # r \/ M.pagemap[vp].pa = 0 THEN M
  ELSE [M EXCEPT !.refcount[M.pagemap[vp].pa] = @ - 1, !.pagemap[vp] = NoMapping]

\* An eviction that drops the page without writing it back.
evict_discard(M) ==
  LET ev == M.lru_list[Len(M.lru_list)]
      vps == {x \in VPages : M.v2p[x] = ev}
      vp == CHOOSE x \in vps : TRUE
      popped(M1) == [M1 EXCEPT !.lru_list = SubSeq(@, 1, Len(@) - 1)]
      erased(M3) ==
        IF M3.fail # "" THEN M3
        ELSE [M3 EXCEPT !.ppage2file[ev] = 0, !.v2p[vp] = 0, !.page_env[vp] = -1]
  IN IF M.fail # "" THEN M
     ELSE IF M.lru_list = <<>> \/ vps = {} THEN Abort(M)
     ELSE erased(page_free(VMRegion_unmap(popped(M), M.ppage2file[ev], vp), ev))

\* An eviction that leaves the page it frees on the LRU list.
evict_keeps_lru(M) ==
  LET ev == M.lru_list[Len(M.lru_list)]
      vps == {x \in VPages : M.v2p[x] = ev}
      vp == CHOOSE x \in vps : TRUE
      owner == M.ppage2file[ev]
      written(M2) ==
        IF M2.page_env[vp] = 1
        THEN aligned_pwrite(M2, owner, M2.mem[ev], Addr(M2, vp) - map_base(M2, owner))
        ELSE M2
      erased(M3) ==
        IF M3.fail # "" THEN M3
        ELSE [M3 EXCEPT !.ppage2file[ev] = 0, !.v2p[vp] = 0, !.page_env[vp] = -1]
  IN IF M.fail # "" THEN M
     ELSE IF M.lru_list = <<>> \/ vps = {} THEN Abort(M)
     ELSE erased(page_free(VMRegion_unmap(written(M), owner, vp), ev))

\* An eviction that writes the page back whether it is dirty or not.
evict_always_writes(M) ==
  LET ev == M.lru_list[Len(M.lru_list)]
      vps == {x \in VPages : M.v2p[x] = ev}
      vp == CHOOSE x \in vps : TRUE
      owner == M.ppage2file[ev]
      popped(M1) == [M1 EXCEPT !.lru_list = SubSeq(@, 1, Len(@) - 1)]
      written(M2) == aligned_pwrite(M2, owner, M2.mem[ev], Addr(M2, vp) - map_base(M2, owner))
      erased(M3) ==
        IF M3.fail # "" THEN M3
        ELSE [M3 EXCEPT !.ppage2file[ev] = 0, !.v2p[vp] = 0, !.page_env[vp] = -1]
  IN IF M.fail # "" THEN M
     ELSE IF M.lru_list = <<>> \/ vps = {} THEN Abort(M)
     ELSE erased(page_free(VMRegion_unmap(written(popped(M)), owner, vp), ev))

\* The eviction in MCryptFile::fault: the tail of the LRU list goes, written
\* back to the file that owns it if its page is dirty.
evict(M) ==
  LET ev == M.lru_list[Len(M.lru_list)]
      vps == {x \in VPages : M.v2p[x] = ev}
      vp == CHOOSE x \in vps : TRUE
      owner == M.ppage2file[ev]
      popped(M1) == [M1 EXCEPT !.lru_list = SubSeq(@, 1, Len(@) - 1)]
      written(M2) ==
        IF M2.page_env[vp] = 1
        THEN aligned_pwrite(M2, owner, M2.mem[ev], Addr(M2, vp) - map_base(M2, owner))
        ELSE M2
      erased(M3) ==
        IF M3.fail # "" THEN M3
        ELSE [M3 EXCEPT !.ppage2file[ev] = 0, !.v2p[vp] = 0, !.page_env[vp] = -1]
  IN IF M.fail # "" THEN M
     ELSE IF M.lru_list = <<>> \/ vps = {} THEN Abort(M)
     ELSE erased(page_free(VMRegion_unmap(written(popped(M)), owner, vp), ev))

\* A fault that reads the file straight into the physical page: at or past
\* the end of the file pread returns 0 and the page keeps what it held.
fault_reads_in_place(M, f, pg) ==
  LET vp == <<f, pg>>
      off(M2) == Addr(M2, vp) - map_base(M2, f)
      retry(M1) ==
        IF M1.fail = "" /\ M1.ret = 0 THEN page_alloc(evict(M1)) ELSE M1
      install(M3) ==
        IF M3.fail # "" THEN M3
        ELSE [M3 EXCEPT !.page_env[vp] = 0, !.v2p[vp] = M3.pagemap[vp].pa,
                        !.ppage2file[M3.pagemap[vp].pa] = f,
                        !.lru_list = <<M3.pagemap[vp].pa>> \o @, !.ret = 0]
      fetch(M2) ==
        IF M2.fail # "" THEN M2
        ELSE IF M2.ret = 0 THEN Abort(M2)
        ELSE install(VMRegion_map(
               [M2 EXCEPT !.mem[M2.ret] = IF off(M2) < 0 \/ off(M2) >= M2.file[f].size THEN @
                                          ELSE aligned_pread(M2, f, off(M2)),
                          !.file[f].pread_bytes =
                             IF off(M2) < M2.file[f].size THEN Min({@ + 1, IOCap}) ELSE @],
               vp, M2.ret, "R"))
      dirty(M4) ==
        IF M4.fail # "" THEN M4
        ELSE [M4 EXCEPT !.page_env[vp] = 1, !.ppage2file[M4.v2p[vp]] = f,
                        !.lru_list = <<M4.v2p[vp]>> \o Remove(@, M4.v2p[vp])]
  IN IF M.fail # "" THEN M
     ELSE IF M.page_env[vp] = -1 THEN fetch(retry(page_alloc(M)))
     ELSE dirty(VMRegion_map(VMRegion_unmap(M, f, vp), vp, M.v2p[vp], "RW"))

\* MCryptFile::fault, called by VMRegion::fault_handler for a fault in the
\* region of f: a page without page_env_ entry is loaded read-only, a page
\* with one is made writable and dirty.
MCryptFile_fault(M, f, pg) ==
  LET vp == <<f, pg>>
      retry(M1) ==
        IF M1.fail = "" /\ M1.ret = 0 THEN page_alloc(evict(M1)) ELSE M1
      install(M3) ==
        IF M3.fail # "" THEN M3
        ELSE [M3 EXCEPT !.page_env[vp] = 0, !.v2p[vp] = M3.pagemap[vp].pa,
                        !.ppage2file[M3.pagemap[vp].pa] = f,
                        !.lru_list = <<M3.pagemap[vp].pa>> \o @, !.ret = 0]
      fetch(M2) ==
        IF M2.fail # "" THEN M2
        ELSE IF M2.ret = 0 THEN Abort(M2)
        ELSE install(VMRegion_map(
               [M2 EXCEPT !.mem[M2.ret] = aligned_pread(M2, f, Addr(M2, vp) - map_base(M2, f)),
                          !.file[f].pread_bytes =
                             IF Addr(M2, vp) - map_base(M2, f) < M2.file[f].size
                             THEN Min({@ + 1, IOCap}) ELSE @],
               vp, M2.ret, "R"))
      dirty(M4) ==
        IF M4.fail # "" THEN M4
        ELSE [M4 EXCEPT !.page_env[vp] = 1, !.ppage2file[M4.v2p[vp]] = f,
                        !.lru_list = <<M4.v2p[vp]>> \o Remove(@, M4.v2p[vp])]
  IN IF M.fail # "" THEN M
     ELSE IF M.page_env[vp] = -1 THEN fetch(retry(page_alloc(M)))
     ELSE dirty(VMRegion_map(VMRegion_unmap(M, f, vp), vp, M.v2p[vp], "RW"))

\* A flush that drops the mappings of the pages it finds dirty.
flush_unmaps(M, f) ==
  [M EXCEPT !.pagemap = [x \in VPages |-> IF M.page_env[x] = 1 THEN NoMapping ELSE @[x]]]

\* Every dirty entry of the shared page_env_ is written to this file, at the
\* distance of its address from this file's map_base_.  The writes go to
\* different offsets, so the order of the iteration does not matter.
MCryptFile_flush(M, f) ==
  LET RECURSIVE pages(_, _)
      pages(M1, vps) ==
        IF vps = {} THEN M1
        ELSE LET vp == CHOOSE x \in vps : TRUE
             IN pages(aligned_pwrite(M1, f, M1.mem[M1.v2p[vp]],
                                     Addr(M1, vp) - map_base(M1, f)),
                      vps \ {vp})
  IN IF M.fail # "" THEN M
     ELSE pages(M, {x \in VPages : M.page_env[x] = 1})

\* min_size = max(min_size, file_size()); mmap of 0 bytes fails and the
\* constructor of VMRegion throws.  slot is where mmap puts a new region.
MCryptFile_map(M, f, min_size, slot) ==
  LET sz == Max({min_size, M.file[f].size})
      region(M1) ==
        IF M1.obj[f].vir_mem THEN M1
        ELSE [M1 EXCEPT !.obj[f].vir_mem = TRUE, !.obj[f].slot = slot,
                        !.obj[f].npages = sz, !.vm_instance = @ + 1]
      pool(M2) ==
        IF M2.phy_mem THEN M2
        ELSE [M2 EXCEPT !.phy_mem = TRUE, !.npages = M2.page_num,
                        !.free = [k \in 1 .. M2.page_num |-> k],
                        !.refcount = [p \in PPages |-> -1]]
      mapped(M3) == [M3 EXCEPT !.obj[f].map_size = sz]
  IN IF M.fail # "" THEN M
     ELSE IF ~M.obj[f].vir_mem /\ sz = 0 THEN Throw(M)
     ELSE mapped(pool(region(M)))

\* flush, then for every pair of the shared v2p_, whichever file the page
\* belongs to: unmap from this file's region, page_free, erase.  A page of
\* another file stays mapped in its own region and page_free asserts.
MCryptFile_unmap(M, f) ==
  LET RECURSIVE release(_, _)
      release(M1, vps) ==
        IF vps = {} \/ M1.fail # "" THEN M1
        ELSE LET vp == CHOOSE x \in vps : TRUE
                 freed(M2) ==
                   IF M2.fail # "" THEN M2
                   ELSE [M2 EXCEPT !.ppage2file[M1.v2p[vp]] = 0,
                                   !.lru_list = Remove(@, M1.v2p[vp])]
             IN release(freed(page_free(VMRegion_unmap(M1, f, vp), M1.v2p[vp])),
                        vps \ {vp})
      cleared(M3) ==
        IF M3.fail # "" THEN M3
        ELSE [M3 EXCEPT !.v2p = [x \in VPages |-> 0],
                        !.page_env = [x \in VPages |-> -1],
                        !.obj[f] = NoObj, !.vm_instance = @ - 1]
  IN cleared(release(MCryptFile_flush(M, f), {x \in VPages : M.v2p[x] # 0}))

\* ~MCryptFile does what unmap() does, unmapped or not, and deletes the pool
\* when vm_instance_, a size_t, has come to 0 (-1 stands for SIZE_MAX).  With
\* vir_mem_ null and pairs in the shared v2p_, unmap is called through a null
\* pointer: ub tells whether the process dies there or the call goes through,
\* as it touches static members only.
MCryptFile_dtor(M, f, ub) ==
  LET pool(M1) ==
        IF M1.fail # "" \/ M1.vm_instance # 0 THEN M1
        ELSE IF \E p \in PPages : M1.refcount[p] >= 0 THEN Abort(M1)
        ELSE [M1 EXCEPT !.phy_mem = FALSE, !.npages = 0, !.free = <<>>]
  IN IF M.fail # "" THEN M
     ELSE IF ub /\ ~M.obj[f].vir_mem /\ (\E x \in VPages : M.v2p[x] # 0)
     THEN Abort(MCryptFile_flush(M, f))
     ELSE pool(MCryptFile_unmap(M, f))

(***************************************************************************)
(* The program using the files: MCryptFile objects over files of 0 to      *)
(* MPages pages, set_memory_size called before their construction, then    *)
(* map, accesses to mapped pages, flush and unmap in any order.  mh keeps  *)
(* what the program has done: the last value stored in each page, the      *)
(* number of operations, and the last operation: the call made (call) and  *)
(* op, which is "error" when the call aborted; for a read, whether it      *)
(* loaded a page that had been written and evicted, and what the frame it  *)
(* loaded the page into held before (stale).                               *)
(***************************************************************************)
MaxOps == 5

Unwritten == Garbage + 1

\* The contents write_file gives page pg of file f.
FileByte(f, pg) == 1 + ((f + pg) % MVal)

\* The program makes at most MaxOps calls and accesses.  The values written are
\* forgotten at the first unmap.
MDone(M, op, f, pg, v) ==
  /\ mh.n < MaxOps
  /\ mm' = [M EXCEPT !.ret = 0, !.fail = IF @ = "throw" THEN "" ELSE @]
  /\ mh' = [mh EXCEPT
              !.exp = IF op \in {"unmap", "destroy"} \/ ~mh.quiet
                      THEN [x \in VPages |-> Unwritten]
                      ELSE IF op = "write" /\ M.fail = "" THEN [@ EXCEPT ![<<f, pg>>] = v]
                      ELSE @,
              !.quiet = @ /\ op \notin {"unmap", "destroy"},
              !.dead = IF op = "destroy" THEN @ \cup {f} ELSE @,
              !.readonly = @ /\ op # "write",
              !.n = @ + 1,
              !.last = [op |-> IF M.fail = "" THEN op ELSE "error", call |-> op,
                        f |-> f, pg |-> pg,
                        stale |-> IF op = "read" /\ M.fail = "" /\ mm.page_env[<<f, pg>>] = -1
                                  THEN mm.mem[M.pagemap[<<f, pg>>].pa] ELSE 0,
                        reloaded |-> op = "read" /\ mm.page_env[<<f, pg>>] = -1
                                     /\ mh.exp[<<f, pg>>] # Unwritten,
                        evicted |-> op \in {"read", "write"}
                                    /\ \E x \in VPages : mm.page_env[x] # -1
                                                          /\ M.page_env[x] = -1]]
  /\ UNCHANGED <<varsJ, ns, cc, al, sv, syn>>

MMap(f, min_size, slot) ==
  /\ mm.fail = "" /\ ~mm.file[f].far /\ f \notin mh.dead
  /\ IF mm.obj[f].vir_mem THEN slot = mm.obj[f].slot
     ELSE \A g \in Files : mm.obj[g].slot # slot
  /\ MDone(MCryptFile_map(mm, f, min_size, slot), "map", f, 0, 0)

\* A load from a mapped page: a page without access faults first.
MRead(f, pg) ==
  /\ mm.fail = "" /\ pg < mm.obj[f].npages
  /\ LET vp == <<f, pg>>
         access(M) == IF M.pagemap[vp].prot = "NONE" THEN MCryptFile_fault(M, f, pg) ELSE M
     IN MDone(access(mm), "read", f, pg, 0)

\* A store to a mapped page: an absent page faults twice, to be loaded and to
\* be made writable, a read-only one once.
MWrite(f, pg, v) ==
  /\ mm.fail = "" /\ pg < mm.obj[f].npages
  /\ LET vp == <<f, pg>>
         access(M) == IF M.pagemap[vp].prot = "NONE" THEN MCryptFile_fault(M, f, pg) ELSE M
         upgrade(M1) ==
           IF M1.fail = "" /\ M1.pagemap[vp].prot = "R" THEN MCryptFile_fault(M1, f, pg)
           ELSE M1
         store(M2) ==
           IF M2.fail # "" THEN M2 ELSE [M2 EXCEPT !.mem[M2.pagemap[vp].pa] = v]
     IN MDone(store(upgrade(access(mm))), "write", f, pg, v)

MFlush(f) ==
  /\ mm.fail = "" /\ f \notin mh.dead
  /\ MDone(MCryptFile_flush(mm, f), "flush", f, 0, 0)

MUnmap(f) ==
  /\ mm.fail = "" /\ mm.obj[f].vir_mem
  /\ MDone(MCryptFile_unmap(mm, f), "unmap", f, 0, 0)

\* The volume and the mapped files, where a specification has none.
IdleJ ==
  /\ cache = EmptyCache /\ vlog = NoLog /\ disk = <<>> /\ up = FALSE
  /\ oracle = <<>> /\ nlog = 0 /\ last = <<>> /\ input = <<>> /\ txs = <<>>

IdleM == mm = <<>> /\ mh = <<>>

InitM ==
  /\ \E size \in [Files -> 0 .. MPages], n \in PPages :
       /\ mm = [file |-> [f \in Files |->
                            [size |-> size[f], far |-> FALSE, pread_bytes |-> 0,
                             pwrite_bytes |-> 0,
                             cell |-> [pg \in PageNos |->
                                         IF pg < size[f] THEN encrypt(f, FileByte(f, pg), pg)
                                         ELSE Hole]]],
                obj |-> [f \in Files |-> NoObj],
                page_num |-> n, vm_instance |-> 0, phy_mem |-> FALSE, npages |-> 0,
                free |-> <<>>,
                refcount |-> [p \in PPages |-> -1], mem |-> [p \in PPages |-> 0],
                pagemap |-> [x \in VPages |-> NoMapping],
                page_env |-> [x \in VPages |-> -1], v2p |-> [x \in VPages |-> 0],
                ppage2file |-> [p \in PPages |-> 0], lru_list |-> <<>>,
                bad_free |-> FALSE, fail |-> "", ret |-> 0]
       /\ mh = [exp |-> [x \in VPages |-> Unwritten], quiet |-> TRUE, size0 |-> size,
                page_num0 |-> n, dead |-> {}, readonly |-> TRUE, n |-> 0,
                last |-> [op |-> "init", call |-> "init", f |-> 0, pg |-> 0,
                          reloaded |-> FALSE, evicted |-> FALSE, stale |-> 0]]
  /\ IdleJ /\ ns = <<>> /\ cc = <<>> /\ al = <<>> /\ sv = <<>> /\ syn = <<>>

NextM ==
  \/ \E f \in Files, min_size \in 0 .. MPages, slot \in Files : MMap(f, min_size, slot)
  \/ \E f \in Files, pg \in PageNos : MRead(f, pg)
  \/ \E f \in Files, pg \in PageNos, v \in 0 .. MVal : MWrite(f, pg, v)
  \/ \E f \in Files : MFlush(f)
  \/ \E f \in Files : MUnmap(f)

SpecM == InitM /\ [][NextM]_vars

\* The same program, which also destroys its MCryptFile objects and calls
\* set_memory_size after their construction.
MDestroy(f, ub) ==
  /\ mm.fail = "" /\ f \notin mh.dead /\ ~mm.file[f].far
  /\ MDone(MCryptFile_dtor(mm, f, ub), "destroy", f, 0, 0)

MSetMemorySize(npages) ==
  /\ mm.fail = "" /\ npages # mm.page_num
  /\ MDone([mm EXCEPT !.page_num = npages], "set_memory_size", 0, 0, 0)

NextP ==
  \/ NextM
  \/ \E f \in Files, ub \in BOOLEAN : MDestroy(f, ub)
  \/ \E npages \in PPages : MSetMemorySize(npages)

SpecP == InitM /\ [][NextP]_vars

(***************************************************************************)
(* Properties of the mapped files.                                         *)
(***************************************************************************)
\* C4: as long as the mappings are only mapped, read, written and flushed, a
\* read through a mapping returns (the page then holds) the value last written through the mapping
\* to that page or, if the page was never written and lies within the file
\* the mapping was made of, the decrypted contents of the file; the pool may be
\* smaller than the set of pages touched.  (A page past the end of the file
\* has no contents in the file.)
C4_ReadsLastWrite ==
  (mh.quiet /\ mh.last.op = "read") =>
    LET vp == <<mh.last.f, mh.last.pg>>
        val == mm.mem[mm.pagemap[vp].pa]
    IN IF mh.exp[vp] # Unwritten THEN val = mh.exp[vp]
       ELSE mh.last.pg < mh.size0[mh.last.f] => val = FileByte(mh.last.f, mh.last.pg)

\* A read returns the value written to a page that was evicted after the write
\* and loaded again, from a pool smaller than the pages in use.
C4_Witness ==
  /\ mh.quiet /\ mh.last.op = "read" /\ mh.last.reloaded
  /\ mh.exp[<<mh.last.f, mh.last.pg>>] = mm.mem[mm.pagemap[<<mh.last.f, mh.last.pg>>].pa]
  /\ Len(mm.free) = 0
  /\ \E g \in Files : g # mh.last.f /\ mm.obj[g].vir_mem

\* C5: right after flush() on a mapped file, every resident page of its mapping
\* holds in memory what the file decrypts to at the page's offset (a page that
\* is not resident has the contents a fault would load by definition).
C5_FlushMatchesMemory ==
  (mh.last.op = "flush" /\ mm.fail = "" /\ mm.obj[mh.last.f].vir_mem) =>
    \A pg \in PageNos :
      (pg < mm.obj[mh.last.f].npages /\ mm.page_env[<<mh.last.f, pg>>] # -1) =>
        mm.mem[mm.v2p[<<mh.last.f, pg>>]] = aligned_pread(mm, mh.last.f, pg)

C12_PoolLifetime ==
  mm.fail = "" =>
    /\ (\E f \in Files : mm.obj[f].vir_mem) => mm.phy_mem
    /\ mh.dead = Files => ~mm.phy_mem

\* C13: a page that was not written through the mapping since it was loaded
\* is never written back, at eviction, flush, unmap or destruction: as long as
\* the program has only mapped, read, flushed, unmapped and destroyed, with any
\* pool size and any number of evictions, the pwrite counter of every file is 0;
\* and before the first unmap, the pages marked dirty, the only ones that are
\* written back, are pages the program has stored to since they were loaded.
C13_ReadsNeverWriteBack ==
  /\ mh.readonly => \A f \in Files : mm.file[f].pwrite_bytes = 0
  /\ (mh.quiet /\ mm.fail = "") =>
       \A x \in VPages : mm.page_env[x] = 1 => mh.exp[x] # Unwritten

\* A read has evicted a page that had only been read; nothing was written.
C13_Witness ==
  /\ mh.readonly /\ mm.fail = "" /\ mh.last.op = "read" /\ mh.last.evicted
  /\ \A f \in Files : mm.file[f].pwrite_bytes = 0

\* C14: flush() does not alter residency: every page resident before it is
\* mapped to the same physical page, with the same contents, after it, and
\* flush() neither loads nor evicts nor reads any page from a file.
C14_FlushKeepsResidency ==
  [][(mh'.last.op = "flush" /\ mh'.n # mh.n) =>
       /\ mm'.pagemap = mm.pagemap /\ mm'.v2p = mm.v2p /\ mm'.page_env = mm.page_env
       /\ mm'.lru_list = mm.lru_list /\ mm'.free = mm.free /\ mm'.mem = mm.mem
       /\ mm'.refcount = mm.refcount
       /\ \A g \in Files : mm'.file[g].pread_bytes = mm.file[g].pread_bytes]_vars

\* A flush has run with a dirty page and a clean page resident, and has
\* written to its file.
C14_Witness ==
  /\ mh.last.op = "flush" /\ mm.fail = ""
  /\ mm.file[mh.last.f].pwrite_bytes > 0
  /\ \E x, y \in VPages : mm.page_env[x] = 1 /\ mm.page_env[y] = 0
                            /\ mm.pagemap[x].prot = "RW" /\ mm.pagemap[y].prot = "R"

\* C16: whenever the dirty flag of a virtual page is 1, the contents of its
\* physical page differ from the decrypted contents of the file at the page's
\* offset, at every point of any sequence of faults, writes, flushes and
\* evictions.
C16_DirtyImpliesDiffers ==
  mm.fail = "" =>
    \A x \in VPages :
      (mm.page_env[x] = 1 /\ mm.v2p[x] # 0) =>
        mm.mem[mm.v2p[x]] # aligned_pread(mm, x[1], x[2])

\* C15: set_memory_size sets the size of the pool only when it is called
\* before any MCryptFile is constructed: whenever there is a pool, it has the
\* number of pages asked for before the construction of the MCryptFiles,
\* whatever was asked for later.
C15_SizeFixedAtConstruction == mm.phy_mem => mm.npages = mh.page_num0

C36_FlushWritesOwnPages ==
  [][(mh'.n # mh.n /\ mh'.last.call = "flush") =>
       LET f == mh'.last.f
           own(pg) == mm.page_env[<<f, pg>>] = 1
       IN /\ \A g \in Files \ {f} : mm'.file[g] = mm.file[g]
          /\ mm'.file[f].far = mm.file[f].far
          /\ \A pg \in PageNos :
               mm'.file[f].cell[pg] = IF own(pg)
                                      THEN encrypt(f, mm.mem[mm.v2p[<<f, pg>>]], pg)
                                      ELSE mm.file[f].cell[pg]
          /\ (\A pg \in PageNos : ~own(pg)) =>
               mm'.file[f].pwrite_bytes = mm.file[f].pwrite_bytes]_vars

C38_LruOrderedByTouch ==
  (mh.quiet /\ mm.fail = "" /\ mh.last.op \in {"read", "write"}) =>
    /\ mm.lru_list # <<>>
    /\ mm.lru_list[1] = mm.v2p[<<mh.last.f, mh.last.pg>>]

\* C39: a page that is loaded by a fault at an offset at or past the end of
\* its file reads as zeroes, whatever the physical page it is given held
\* before: the contents of an evicted page of the same or of another file do
\* not show through a newly loaded page.
C39_ZeroFillPastEof ==
  [][LET vp == <<mh'.last.f, mh'.last.pg>>
     IN (/\ mh'.n # mh.n /\ mh'.last.op = "read" /\ mm.page_env[vp] = -1
         /\ mh'.last.pg >= mm'.file[mh'.last.f].size) =>
          mm'.mem[mm'.pagemap[vp].pa] = 0]_vars

\* A read has loaded a page past the end of its file into a physical page that
\* held the contents of the page this fault evicted, with a second file
\* mapped, and the page reads as zero.
C39_Witness ==
  /\ mm.fail = "" /\ mh.last.op = "read" /\ mh.last.evicted /\ mh.last.stale # 0
  /\ mh.last.pg >= mm.file[mh.last.f].size
  /\ mm.mem[mm.pagemap[<<mh.last.f, mh.last.pg>>].pa] = 0
  /\ \E g \in Files : g # mh.last.f /\ mm.obj[g].vir_mem /\ mm.file[g].size > 0

(***************************************************************************)
(* The name space of a mounted volume (fsops.cc, mountv6.cc, v6fs.cc).     *)
(* An inode is allocated or not, a directory or not, and has a link count; *)
(* a directory holds ".", ".." and at most NNames named entries.  The      *)
(* operations are the FUSE handlers, called by the kernel with the checks  *)
(* the kernel makes first: the paths are resolved from the root through    *)
(* named entries, unlink and link are not called on a directory, rename is *)
(* called neither on two names of one inode, nor to replace a directory by *)
(* a file or a file by a directory, nor to move a directory below itself, *)
(* nor to replace a directory by one that lies below it.                   *)
(* A handler that returns an error changes nothing of the name space: the  *)
(* calls on a name that is missing, or is there already, are left out.     *)
(***************************************************************************)
NInodes == 3
NNames == 2
NlinkBits == 3
ROOT_INUMBER == 1

\* i_nlink is a uint8_t, here of NlinkBits bits; the handlers refuse a link
\* beyond its largest value (255).
NlinkMod == 2 ^ NlinkBits
NlinkMax == NlinkMod - 1

Inums == 1 .. NInodes
Names == 1 .. NNames

\* memset(&raw(), 0, sizeof(inode))
NoInode == [alloc |-> FALSE, dir |-> FALSE, nlink |-> 0]
NoDir == [n \in Names |-> 0]

\* The entries of a directory fit in one block: the volume has a data block
\* for every inode, and a file holds none.  s_free is the free list of the
\* superblock, a stack whose top is its last element.
FBlocks == 1 .. NInodes

\* the blocks of S, the highest first
RECURSIVE Descending(_)
Descending(S) == IF S = {} THEN <<>> ELSE <<Max(S)>> \o Descending(S \ {Max(S)})

\* V6FS::ialloc: an empty s_inode is refilled by a scan of the inodes in
\* ascending order; the last of the list is taken.  ret = 0: out of inodes.
ialloc(N) ==
  LET free == {i \in Inums : ~N.ino[i].alloc}
      scan == CHOOSE s \in [1 .. Cardinality(free) -> free] :
                \A j, k \in DOMAIN s : j < k => s[j] < s[k]
      list == IF N.s_inode = <<>> THEN scan ELSE N.s_inode
  IN IF list = <<>> THEN [N EXCEPT !.ret = 0]
     ELSE [N EXCEPT !.s_inode = SubSeq(list, 1, Len(list) - 1),
                    !.ino[list[Len(list)]] = NoInode,
                    !.ret = list[Len(list)]]

\* The list has room for 100 inodes, more than the volume has.
ifree(N, inum) == [N EXCEPT !.s_inode = Append(@, inum)]

\* Inode::clear: truncate(0) gives the blocks back, with the entries in them.
clear(N, inum) ==
  [N EXCEPT !.ino[inum] = NoInode, !.ent[inum] = NoDir,
            !.dot[inum] = 0, !.dotdot[inum] = 0,
            !.blk[inum] = 0,
            !.s_free = IF N.blk[inum] # 0 THEN Append(@, N.blk[inum]) ELSE @]

fs_mknod(N, d, name) ==
  LET made(N1) ==
        IF N1.ret = 0 THEN N1
        ELSE [N1 EXCEPT !.ino[N1.ret] = [alloc |-> TRUE, dir |-> FALSE, nlink |-> 1],
                        !.ent[d][name] = N1.ret]
  IN IF N.ent[d][name] # 0 THEN N
     ELSE made(ialloc(N))

fs_mkdir(N, d, name) ==
  LET made(N1) ==
        IF N1.ret = 0 THEN N1
        ELSE [N1 EXCEPT !.ino[N1.ret] = [alloc |-> TRUE, dir |-> TRUE, nlink |-> 2],
                        !.blk[N1.ret] = N1.s_free[Len(N1.s_free)],
                        !.s_free = SubSeq(@, 1, Len(@) - 1),
                        !.ent[d][name] = N1.ret,
                        !.dot[N1.ret] = N1.ret, !.dotdot[N1.ret] = d,
                        !.ino[d].nlink = (@ + 1) % NlinkMod]
  IN IF N.ent[d][name] # 0 \/ N.ino[d].nlink >= NlinkMax THEN N
     ELSE made(ialloc(N))

fs_rmdir(N, d, name) ==
  LET ip == N.ent[d][name]
  IN IF ip = 0 THEN N
     ELSE IF ~N.ino[ip].dir THEN N
     ELSE IF \E n \in Names : N.ent[ip][n] # 0 THEN N
     ELSE ifree(clear([N EXCEPT !.ent[d][name] = 0,
                                !.ino[d].nlink = (@ + NlinkMax) % NlinkMod], ip), ip)

fs_link(N, d1, n1, d2, n2) ==
  LET ip == N.ent[d1][n1]
  IN IF ip = 0 \/ N.ent[d2][n2] # 0 THEN N
     ELSE IF N.ino[ip].nlink >= NlinkMax THEN N
     ELSE [N EXCEPT !.ino[ip].nlink = (@ + 1) % NlinkMod, !.ent[d2][n2] = ip]

fs_unlink(N, d, name) ==
  LET ip == N.ent[d][name]
      gone(N1) ==
        IF N1.ino[ip].nlink > 1 THEN [N1 EXCEPT !.ino[ip].nlink = @ - 1]
        ELSE clear(N1, ip)
  IN IF ip = 0 THEN N
     ELSE gone([N EXCEPT !.ent[d][name] = 0])

\* An existing target loses a link, or is cleared and freed with its last
\* one; then the new entry takes the inode of the old one and the old entry
\* is cleared.  Neither "..", nor the link count of a parent is touched.
v6_rename(N, d1, n1, d2, n2) ==
  LET old == N.ent[d1][n1]
      tgt == N.ent[d2][n2]
      replaced(N1) ==
        IF tgt = 0 THEN N1
        ELSE IF N1.ino[tgt].nlink > 1 THEN [N1 EXCEPT !.ino[tgt].nlink = @ - 1]
        ELSE ifree(clear(N1, tgt), tgt)
      moved(N2) == [N2 EXCEPT !.ent[d2][n2] = old, !.ent[d1][n1] = 0]
  IN IF old = 0 THEN N
     ELSE moved(replaced(N))

\* The inodes a path leads to from those of S: fs_named walks through named
\* entries and stops at an inode that is no directory.
RECURSIVE Below(_, _)
Below(N, S) ==
  LET T == S \cup ({N.ent[d][n] : d \in {x \in S : N.ino[x].dir}, n \in Names} \ {0})
  IN IF T = S THEN S ELSE Below(N, T)

Dirs(N) == {d \in Below(N, {ROOT_INUMBER}) : N.ino[d].dir}

\* What the last run of fsck found and returned, if fsck was the last
\* program run on the image.
NoRun == [ran |-> FALSE, write |-> FALSE, found |-> {}, status |-> 0]

DDone(N) ==
  /\ ns' = [N EXCEPT !.ret = 0, !.fsck = NoRun]
  /\ UNCHANGED <<varsJ, varsM, cc, al, sv, syn>>

\* v6_create and v6_mknod
Mknod(d, name) ==
  /\ ns.ent[d][name] = 0
  /\ DDone(fs_mknod(ns, d, name))

\* The new directory needs a block for its entries.
Mkdir(d, name) ==
  /\ ns.ent[d][name] = 0 /\ ns.s_free # <<>>
  /\ DDone(fs_mkdir(ns, d, name))

Rmdir(d, name) ==
  /\ ns.ent[d][name] # 0
  /\ DDone(fs_rmdir(ns, d, name))

Link(d1, n1, d2, n2) ==
  /\ ns.ent[d1][n1] # 0 /\ ~ns.ino[ns.ent[d1][n1]].dir
  /\ DDone(fs_link(ns, d1, n1, d2, n2))

Unlink(d, name) ==
  /\ ns.ent[d][name] # 0 /\ ~ns.ino[ns.ent[d][name]].dir
  /\ DDone(fs_unlink(ns, d, name))

Rename(d1, n1, d2, n2) ==
  /\ LET old == ns.ent[d1][n1]
         tgt == ns.ent[d2][n2]
     IN /\ old # 0
        /\ old # tgt
        /\ tgt # 0 => ns.ino[old].dir = ns.ino[tgt].dir
        /\ ns.ino[old].dir => d2 \notin Below(ns, {old})
        /\ (tgt # 0 /\ ns.ino[tgt].dir) => d1 \notin Below(ns, {tgt})
  /\ DDone(v6_rename(ns, d1, n1, d2, n2))

\* A volume made by mkfs: the root directory alone, ".." being the root.
InitD ==
  /\ ns = [ino |-> [i \in Inums |-> IF i = ROOT_INUMBER
                                    THEN [alloc |-> TRUE, dir |-> TRUE, nlink |-> 2]
                                    ELSE NoInode],
           ent |-> [i \in Inums |-> NoDir],
           dot |-> [i \in Inums |-> IF i = ROOT_INUMBER THEN ROOT_INUMBER ELSE 0],
           dotdot |-> [i \in Inums |-> IF i = ROOT_INUMBER THEN ROOT_INUMBER ELSE 0],
           blk |-> [i \in Inums |-> IF i = ROOT_INUMBER THEN 1 ELSE 0],
           s_free |-> Descending(FBlocks \ {1}),
           s_inode |-> <<>>, ret |-> 0, fsck |-> NoRun, damaged |-> FALSE]
  /\ IdleJ /\ IdleM /\ cc = <<>> /\ al = <<>> /\ sv = <<>> /\ syn = <<>>

NextD ==
  \/ \E d \in Dirs(ns), n \in Names : Mknod(d, n)
  \/ \E d \in Dirs(ns), n \in Names : Mkdir(d, n)
  \/ \E d \in Dirs(ns), n \in Names : Rmdir(d, n)
  \/ \E d1, d2 \in Dirs(ns), n1, n2 \in Names : Link(d1, n1, d2, n2)
  \/ \E d \in Dirs(ns), n \in Names : Unlink(d, n)
  \/ \E d1, d2 \in Dirs(ns), n1, n2 \in Names : Rename(d1, n1, d2, n2)

SpecD == InitD /\ [][NextD]_vars

(***************************************************************************)
(* Properties of the name space.                                           *)
(***************************************************************************)
\* The entries of the allocated directories that hold the number i, "." and
\* ".." included.
Refs(N, i) ==
  Cardinality({e \in Inums \X Names : N.ino[e[1]].dir /\ N.ent[e[1]][e[2]] = i})
  + Cardinality({d \in Inums : N.ino[d].dir /\ N.dot[d] = i})
  + Cardinality({d \in Inums : N.ino[d].dir /\ N.dotdot[d] = i})

\* The named entries of directory d that hold a directory.
ChildDirs(N, d) == {n \in Names : N.ent[d][n] # 0 /\ N.ino[N.ent[d][n]].dir}

\* The link count of every allocated inode is the number of entries that
\* hold its number.
LinksAreEntries ==
  \A i \in Inums : ns.ino[i].alloc => ns.ino[i].nlink = Refs(ns, i)

\* C8: after any sequence of mknod, mkdir, rmdir, link, unlink and rename, the
\* link count of every allocated inode is the number of directory entries that
\* hold its number, and so the link count of a directory is 2 plus the number
\* of its child directories.
C8_LinkCounts ==
  /\ LinksAreEntries
  /\ \A i \in Inums :
       (ns.ino[i].alloc /\ ns.ino[i].dir) =>
         ns.ino[i].nlink = 2 + Cardinality(ChildDirs(ns, i))

(***************************************************************************)
(* fsck on the name space (fsck.cc).  F.N is the image as the scans read   *)
(* it, F.P the image with the patches made so far, which Fsck::apply       *)
(* writes; nlinks counts the entries found for each inode, as a uint8_t of *)
(* NlinkBits bits; found collects the kinds of defect reported.  The name  *)
(* space holds no block trees and no free list: scan_inodes and the        *)
(* comparison of the free maps find nothing.                               *)
(***************************************************************************)
Count(F, i) == [F EXCEPT !.nlinks[i] = (@ + 1) % NlinkMod]
Uncount(F, i) == [F EXCEPT !.nlinks[i] = (@ + NlinkMax) % NlinkMod]
Report(F, kind) == [F EXCEPT !.found = @ \cup {kind}]

FStart(N) ==
  [N |-> N, P |-> N, nlinks |-> [i \in Inums |-> 0], found |-> {}, newlinks |-> <<>>,
   freemap |-> FBlocks]

\* Fsck::scan_inodes: the blocks of every inode, allocated or not, leave the
\* free map of the scan.
scan_inodes(F) == [F EXCEPT !.freemap = FBlocks \ {F.N.blk[i] : i \in Inums}]

\* fsck.freemap_ == fs_freemap(fs)
check_freemap(F) ==
  IF F.freemap # Range(F.N.s_free) THEN Report(F, "freelist") ELSE F

RECURSIVE scan_directory(_, _, _)
RECURSIVE scan_entries(_, _, _)

\* the loop of scan_directory over the named entries, from entry n on
scan_entries(F, ip, n) ==
  LET e == F.N.ent[ip][n]
      child(F1) ==
        IF ~F1.N.ino[e].alloc
        THEN Report([Uncount(F1, e) EXCEPT !.P.ent[ip][n] = 0], "dir")
        ELSE IF ~F1.N.ino[e].dir THEN F1
        ELSE IF F1.nlinks[e] # 1
        THEN Report([Uncount(F1, e) EXCEPT !.P.ent[ip][n] = 0], "dir")
        ELSE scan_directory(F1, e, ip)
      next(F2) == scan_entries(F2, ip, n + 1)
  IN IF n > NNames THEN F
     ELSE IF e = 0 THEN next(F)
     ELSE next(child(Count(F, e)))

scan_directory(F, ip, parent) ==
  LET dot(F0) ==
        IF F0.N.dot[ip] = 0 THEN F0
        ELSE Count(IF F0.N.dot[ip] # ip
                   THEN Report([F0 EXCEPT !.P.dot[ip] = ip], "dir") ELSE F0, ip)
      dotdot(F1) ==
        IF F1.N.dotdot[ip] = 0 THEN F1
        ELSE Count(IF F1.N.dotdot[ip] # parent
                   THEN Report([F1 EXCEPT !.P.dotdot[ip] = parent], "dir") ELSE F1, parent)
      no_dot(F3) ==
        IF F3.N.dot[ip] # 0 THEN F3
        ELSE Count(Report([F3 EXCEPT !.newlinks = Append(@, <<ip, ip, ".">>)], "dir"), ip)
      no_dotdot(F4) ==
        IF F4.N.dotdot[ip] # 0 THEN F4
        ELSE Count(Report([F4 EXCEPT !.newlinks = Append(@, <<ip, parent, "..">>)], "dir"),
                   parent)
  IN no_dotdot(no_dot(scan_entries(dotdot(dot(F)), ip, 1)))

\* An allocated inode without entries is zeroed; a stored link count that is
\* not the number of entries is patched.
fix_nlink(F) ==
  LET orphans == {i \in Inums : F.nlinks[i] = 0 /\ F.N.ino[i].alloc}
      wrong == {i \in Inums : F.nlinks[i] # 0 /\ F.nlinks[i] # F.N.ino[i].nlink}
  IN [F EXCEPT !.found = @ \cup (IF orphans # {} THEN {"orphan"} ELSE {})
                           \cup (IF wrong # {} THEN {"nlink"} ELSE {}),
               !.P.blk = [i \in Inums |-> IF i \in orphans THEN 0 ELSE @[i]],
               !.P.ino = [i \in Inums |->
                            IF i \in orphans THEN NoInode
                            ELSE IF i \in wrong THEN [@[i] EXCEPT !.nlink = F.nlinks[i]]
                            ELSE @[i]]]

\* the inodes of the free list of the superblock must have no entries
check_s_inode(F) ==
  IF \E k \in DOMAIN F.N.s_inode : F.nlinks[F.N.s_inode[k]] # 0
  THEN Report([F EXCEPT !.P.s_inode = <<>>], "s_inode")
  ELSE F

\* Fsck::apply: the patches are written and the missing "." and ".." are
\* created; then the free list of inodes is emptied.
RECURSIVE add_newlinks(_, _)
add_newlinks(N, links) ==
  IF links = <<>> THEN N
  ELSE add_newlinks(IF Head(links)[3] = "."
                    THEN [N EXCEPT !.dot[Head(links)[1]] = Head(links)[2]]
                    ELSE [N EXCEPT !.dotdot[Head(links)[1]] = Head(links)[2]],
                    Tail(links))

Fsck_apply(F) ==
  [add_newlinks(F.P, F.newlinks) EXCEPT !.s_inode = <<>>,
                                        !.s_free = Descending(F.freemap)]

\* fsck(fs, write) and the exit status of main
fsck(N, write) ==
  LET result(F) ==
        [(IF write THEN Fsck_apply(F) ELSE N) EXCEPT
           !.fsck = [ran |-> TRUE, write |-> write, found |-> F.found,
                     status |-> IF F.found = {} THEN 0 ELSE 1],
           !.ret = 0]
  IN result(check_s_inode(fix_nlink(
       scan_directory(check_freemap(scan_inodes(FStart(N))), ROOT_INUMBER, ROOT_INUMBER))))

Fsck(opt_yes) ==
  /\ ns' = fsck(ns, opt_yes)
  /\ UNCHANGED <<varsJ, varsM, cc, al, sv, syn>>

\* An image edited by hand: the stored link count of one allocated inode is
\* changed, once.
Damage(i, n) ==
  /\ ~ns.damaged /\ ns.ino[i].alloc /\ ns.ino[i].nlink # n
  /\ ns' = [ns EXCEPT !.ino[i].nlink = n, !.damaged = TRUE, !.ret = 0, !.fsck = NoRun]
  /\ UNCHANGED <<varsJ, varsM, cc, al, sv, syn>>

NextF ==
  \/ NextD
  \/ \E opt_yes \in BOOLEAN : Fsck(opt_yes)
  \/ \E i \in Inums, n \in 1 .. NlinkMax : Damage(i, n)

SpecF == InitD /\ [][NextF]_vars

\* C21: fsck -y reaches a fixed point in one run: after it has run, the stored
\* link count of every allocated inode is the number of entries that hold its
\* number, the free list holds exactly the blocks that belong to no inode, and
\* a run of fsck that follows at once detects nothing and repairs nothing.
C21_FsckFixedPoint ==
  (ns.fsck.ran /\ ns.fsck.write) =>
    /\ LinksAreEntries
    /\ Range(ns.s_free) = FBlocks \ {ns.blk[i] : i \in Inums}
    /\ fsck(ns, TRUE).fsck.found = {}
    /\ fsck(ns, TRUE) = [ns EXCEPT !.fsck.found = {}, !.fsck.status = 0]

\* C20: fsck -y on an image whose only defect is repairable, such as a stored
\* link count that is not the number of entries that hold the inode, applies
\* the repair and exits with status 0.
C20_RepairExitsZero ==
  (ns.fsck.ran /\ ns.fsck.write /\ ns.fsck.found = {"nlink"}) =>
    /\ LinksAreEntries
    /\ ns.fsck.status = 0

(***************************************************************************)
(* The cache and the handles on its entries (cache.hh, blockpath.cc), on a *)
(* volume without a log.  A Ref is a pointer to a slot that counts in the  *)
(* slot's refcount_; cc remembers for each handle of the program the slot  *)
(* it points to (0: none) and the key it was obtained for.                 *)
(***************************************************************************)
NHandles == 4

Handles == 1 .. NHandles

CDone(c, h) ==
  /\ cache' = c
  /\ cc' = h
  /\ UNCHANGED <<vlog, disk, up, oracle, nlog, last, input, txs, varsM, ns, al, sv, syn>>

\* Ref<T> r = cache(dev, id): Cache::operator() and Ref(T *).  A lookup that
\* throws leaves the cache and the handle as they were.
CLookup(h, id) ==
  /\ cc.slot[h] = 0
  /\ LET got(S1) ==
           /\ S1.fail = ""
           /\ CDone([S1.c EXCEPT !.ent[S1.ret].refcount = @ + 1],
                    [cc EXCEPT !.slot[h] = S1.ret, !.key[h] = id])
     IN got(lookup(Start, id))

\* Ref(const Ref &)
CCopy(h, g) ==
  /\ cc.slot[h] # 0 /\ cc.slot[g] = 0
  /\ CDone([cache EXCEPT !.ent[cc.slot[h]].refcount = @ + 1],
           [cc EXCEPT !.slot[g] = cc.slot[h], !.key[g] = cc.key[h]])

\* ~Ref
CDrop(h) ==
  /\ cc.slot[h] # 0
  /\ CDone([cache EXCEPT !.ent[cc.slot[h]].refcount = @ - 1],
           [cc EXCEPT !.slot[h] = 0, !.key[h] = 0])

\* CacheBase::free(dev, id)
CFree(id) ==
  /\ index(cache, id) # 0
  /\ CDone(cache_free(Start, id).c, cc)

CInvalidate ==
  /\ \E i \in Slots : cache.ent[i].id # 0
  /\ CDone(invalidate_dev(cache), cc)

InitC ==
  /\ cache = EmptyCache /\ vlog = NoLog /\ up = FALSE
  /\ disk = [blk |-> InitCur.val, log |-> {}, l_checkpoint |-> 0, l_sequence |-> 0,
             map |-> {}, s_dirty |-> 0]
  /\ oracle = [cur |-> InitCur, dur |-> InitCur]
  /\ nlog = 0 /\ last = NoOp /\ input = <<>> /\ txs = <<>>
  /\ cc = [slot |-> [h \in Handles |-> 0], key |-> [h \in Handles |-> 0]]
  /\ IdleM /\ ns = <<>> /\ al = <<>> /\ sv = <<>> /\ syn = <<>>

NextC ==
  \/ \E h \in Handles, id \in DataBlocks : CLookup(h, id)
  \/ \E h, g \in Handles : CCopy(h, g)
  \/ \E h \in Handles : CDrop(h)
  \/ \E id \in DataBlocks : CFree(id)
  \/ CInvalidate

SpecC == InitC /\ [][NextC]_vars

(***************************************************************************)
(* Properties of the cache.                                                *)
(***************************************************************************)
\* C9: in any sequence of lookups, frees, invalidations, copies and drops of
\* handles, a slot with a reference count above zero is neither evicted nor
\* bound to another key: the slot a handle points to is still bound to the key
\* the handle was obtained for, or at most unlinked by the free or the
\* invalidation that was asked for.
C9_NoRebindWhileReferenced ==
  \A h \in Handles :
    cc.slot[h] # 0 =>
      /\ cache.ent[cc.slot[h]].refcount > 0
      /\ cache.ent[cc.slot[h]].id \in {0, cc.key[h]}

(***************************************************************************)
(* The blocks of the files (inode.cc, blockpath.cc, blockpath.hh) on a     *)
(* journalled volume: the pointers of the inodes and of the indirect       *)
(* blocks, and the free map of the log with the list of the blocks freed   *)
(* in the running transaction.  The geometry is scaled: an inode has       *)
(* IADDR_SIZE pointers (8 in the source), an indirect block INDBLK_SIZE    *)
(* (256 in the source), and sizes are counted in sectors.                  *)
(***************************************************************************)
NABlocks == 6
NAInodes == 2
IADDR_SIZE == 2
INDBLK_SIZE == 3

FIRST_DINDR_BLK == (IADDR_SIZE - 1) * INDBLK_SIZE
\* MAX_FILE_SIZE in sectors: the last IADDR_SIZE - 1 pointers of the
\* double-indirect block are never used.
MAX_FILE_BLOCKS == FIRST_DINDR_BLK + (INDBLK_SIZE - (IADDR_SIZE - 1)) * INDBLK_SIZE
MaxDirBlocks == IADDR_SIZE + 1

AInums == 1 .. NAInodes
ABlocks == datastart .. (datastart + NABlocks - 1)
AddrIdx == 0 .. (IADDR_SIZE - 1)
BlkIdx == 0 .. (INDBLK_SIZE - 1)
ZeroAddr == [k \in AddrIdx |-> 0]
ZeroBlock == [k \in BlkIdx |-> 0]
ZeroInode == [alloc |-> FALSE, dir |-> FALSE, larg |-> FALSE, addr |-> ZeroAddr, size |-> 0]
\* What a data block or a directory block holds once written: read as block
\* pointers, every word of it names the last block of the volume.
UserData == [k \in BlkIdx |-> datastart + NABlocks - 1]

\* A BlockPath: height h, the from_inode bit fi, and the three 9-bit indexes.
BlockPath_tail(p) == [h |-> p.h - 1, fi |-> FALSE, ix |-> <<p.ix[2], p.ix[3], 0>>]

BlockPath_tail_at(p, i) ==
  LET h == IF p.fi /\ p.h - 1 > 0 THEN (IF i < IADDR_SIZE - 1 THEN 1 ELSE 2) ELSE p.h - 1
  IN IF i = p.ix[1] THEN BlockPath_tail(p)
     ELSE IF i < p.ix[1]
     THEN [h |-> h, fi |-> FALSE,
           ix |-> <<IF h >= 1 THEN INDBLK_SIZE ELSE 0, IF h >= 2 THEN INDBLK_SIZE ELSE 0, 0>>]
     ELSE [h |-> h, fi |-> FALSE, ix |-> <<0, 0, 0>>]

BlockPath_is_zero(p) == \A k \in 1 .. p.h : p.ix[k] = 0

\* Height 0 stands for the length_error thrown for a small file.
blockno_path(larg, bn) ==
  IF ~larg
  THEN IF bn > IADDR_SIZE THEN [h |-> 0, fi |-> TRUE, ix |-> <<0, 0, 0>>]
       ELSE [h |-> 1, fi |-> TRUE, ix |-> <<bn, 0, 0>>]
  ELSE IF bn < FIRST_DINDR_BLK
  THEN [h |-> 2, fi |-> TRUE, ix |-> <<bn \div INDBLK_SIZE, bn % INDBLK_SIZE, 0>>]
  ELSE [h |-> 3, fi |-> TRUE,
        ix |-> <<IADDR_SIZE - 1, (bn - FIRST_DINDR_BLK) \div INDBLK_SIZE,
                 (bn - FIRST_DINDR_BLK) % INDBLK_SIZE>>]

\* size is counted in sectors here, so bn is size itself.
sentinel_path(larg, size) ==
  IF ~larg THEN blockno_path(larg, Min({size, IADDR_SIZE}))
  ELSE blockno_path(larg, Min({MAX_FILE_BLOCKS, size}))

\* A BlockPtrArray is the inode ba.ino, or the buffer of the block ba.blk.
BlockPtrArray_at(A, ba, idx) ==
  IF ba.ino # 0 THEN A.ino[ba.ino].addr[idx] ELSE A.blk[ba.blk][idx]

BlockPtrArray_set_at(A, ba, idx, blkno) ==
  IF ba.ino # 0 THEN [A EXCEPT !.ino[ba.ino].addr[idx] = blkno]
  ELSE [A EXCEPT !.blk[ba.blk][idx] = blkno]

\* V6Log::balloc and balloc_near, without the log entry.
V6Log_balloc(A) ==
  LET near == IF A.last_balloc < datastart \/ A.last_balloc >= datastart + NABlocks
              THEN datastart ELSE A.last_balloc
      bn == find1(A.freemap, near)
  IN IF bn < 0 THEN [A EXCEPT !.last_balloc = 0, !.ret = 0]
     ELSE [A EXCEPT !.freemap = @ \ {bn}, !.last_balloc = bn, !.ret = bn]

V6FS_balloc(A) ==
  LET got(A1) == IF A1.ret = 0 THEN [A1 EXCEPT !.fail = "ENOSPC"]
                 ELSE [A1 EXCEPT !.blk[A1.ret] = ZeroBlock]
  IN IF A.fail # "" THEN A ELSE got(V6Log_balloc(A))

\* V6FS::bfree and V6Log::bfree.  cache_.b.free drops the buffer of the block
\* unwritten; what the block holds is not read again before balloc zeroes it,
\* and is kept as zeroes here.
V6FS_bfree(A, blockno) ==
  IF A.fail # "" THEN A
  ELSE IF blockno < datastart \/ blockno >= datastart + NABlocks
  THEN [A EXCEPT !.fail = "logic_error"]
  ELSE [A EXCEPT !.freed = Append(@, blockno), !.blk[blockno] = ZeroBlock]

commit_forgets_freed(A) == [A EXCEPT !.freed = <<>>]

V6Log_commit(A) == [A EXCEPT !.freemap = @ \cup Range(A.freed), !.freed = <<>>]

\* free_blocks(ba, start); i is the index the loop of the source stands at,
\* ba.size() - 1 in the call.
RECURSIVE free_blocks(_, _, _, _)
free_blocks(A, ba, start, i) ==
  IF i < start.ix[1] \/ A.fail # "" THEN A
  ELSE LET bn == BlockPtrArray_at(A, ba, i)
           child == BlockPath_tail_at(start, i)
           zero(A2) == IF A2.fail # "" THEN A2 ELSE BlockPtrArray_set_at(A2, ba, i, 0)
           release(A1) == zero(V6FS_bfree(A1, bn))
           below(A1) == IF A1.fail # "" \/ ~BlockPath_is_zero(child) THEN A1 ELSE release(A1)
       IN free_blocks(IF bn = 0 THEN A
                      ELSE IF child.h > 0
                      THEN below(free_blocks(A, [ino |-> 0, blk |-> bn], child, INDBLK_SIZE - 1))
                      ELSE release(A),
                      ba, start, i - 1)

Inode_make_large(A, i) ==
  LET got(A1) ==
        IF A1.fail # "" THEN A1
        ELSE [A1 EXCEPT !.blk[A1.ret] = [k \in BlkIdx |-> IF k < IADDR_SIZE
                                                          THEN A.ino[i].addr[k] ELSE 0],
                        !.ino[i].addr = [ZeroAddr EXCEPT ![0] = A1.ret],
                        !.ino[i].larg = TRUE]
  IN IF A.fail # "" \/ A.ino[i].larg THEN A ELSE got(V6FS_balloc(A))

Inode_make_small(A, i) ==
  LET ind == A.ino[i].addr[0]
      addrs == IF ind # 0 THEN [k \in AddrIdx |-> A.blk[ind][k]] ELSE ZeroAddr
      done(A2) == IF A2.fail # "" THEN A2
                  ELSE [A2 EXCEPT !.ino[i].addr = addrs, !.ino[i].larg = FALSE]
      freed(A1) == done(V6FS_bfree(A1, A1.ino[i].addr[0]))
  IN IF A.fail # "" \/ ~A.ino[i].larg THEN A
     ELSE freed(free_blocks(IF ind = 0 THEN A
                            ELSE [A EXCEPT !.blk[ind] = [k \in BlkIdx |-> IF k < IADDR_SIZE
                                                                          THEN 0 ELSE @[k]]],
                            [ino |-> i, blk |-> 0], blockno_path(TRUE, IADDR_SIZE),
                            IADDR_SIZE - 1))

Inode_truncate(A, i, sz) ==
  LET sized(A2) == IF A2.fail # "" THEN A2 ELSE [A2 EXCEPT !.ino[i].size = sz]
      cut(A1) == IF A1.fail # "" THEN A1
                 ELSE sized(free_blocks(A1, [ino |-> i, blk |-> 0],
                                        sentinel_path(A1.ino[i].larg, sz), IADDR_SIZE - 1))
  IN IF A.fail # "" THEN A
     ELSE IF sz > MAX_FILE_BLOCKS THEN [A EXCEPT !.fail = "EFBIG"]
     ELSE cut(IF sz <= IADDR_SIZE THEN Inode_make_small(A, i) ELSE A)

Inode_clear(A, i) ==
  LET wiped(A1) == IF A1.fail # "" THEN A1 ELSE [A1 EXCEPT !.ino[i] = ZeroInode]
  IN wiped(Inode_truncate(A, i, 0))

\* The block found or allocated is left in ret (0: nullptr).
Inode_getblock(A, i, blockno, allocate) ==
  LET RECURSIVE walk(_, _, _)
      walk(A1, ba, idx) ==
        IF A1.fail # "" \/ idx.h = 0 THEN A1
        ELSE LET bn == BlockPtrArray_at(A1, ba, idx.ix[1])
                 down(A2) ==
                   IF A2.fail # "" THEN A2
                   ELSE walk(BlockPtrArray_set_at(A2, ba, idx.ix[1], A2.ret),
                             [ino |-> 0, blk |-> A2.ret], BlockPath_tail(idx))
             IN IF bn # 0
                THEN walk([A1 EXCEPT !.ret = bn], [ino |-> 0, blk |-> bn], BlockPath_tail(idx))
                ELSE IF ~allocate THEN [A1 EXCEPT !.ret = 0]
                ELSE down(V6FS_balloc(A1))
      start(A1) ==
        IF A1.fail # "" THEN A1
        ELSE IF ~A1.ino[i].larg /\ blockno >= IADDR_SIZE
        THEN [A1 EXCEPT !.fail = IF blockno > IADDR_SIZE THEN "length_error"
                                 ELSE "out_of_range"]
        ELSE walk(A1, [ino |-> i, blk |-> 0], blockno_path(A1.ino[i].larg, blockno))
  IN IF A.fail # "" THEN A
     ELSE start(IF allocate /\ blockno >= IADDR_SIZE THEN Inode_make_large(A, i) ELSE A)

\* Cursor::writeref at the end of a directory that has no spare entry (grow),
\* as Inode::create does; nothing to allocate when an entry is spare.
Inode_create(A, d, grow) ==
  LET wrote(A1) == IF A1.fail # "" THEN A1
                   ELSE [A1 EXCEPT !.blk[A1.ret] = UserData, !.ino[d].size = @ + 1]
  IN IF A.fail # "" \/ ~grow THEN A
     ELSE wrote(Inode_getblock(A, d, A.ino[d].size, TRUE))

AStart ==
  [ino |-> al.ino, blk |-> al.blk, freemap |-> al.freemap, freed |-> al.freed,
   last_balloc |-> al.last_balloc, ret |-> 0, fail |-> ""]

\* The end of a handler: ~Tx commits, whether the handler returns or throws.
ADone(A, op, i) ==
  LET done(A1) ==
        al' = [ino |-> A1.ino, blk |-> A1.blk, freemap |-> A1.freemap, freed |-> A1.freed,
               last_balloc |-> A1.last_balloc,
               last |-> [op |-> IF A.fail = "" THEN op ELSE A.fail, nfreed |-> Len(A.freed)]]
  IN done(V6Log_commit(A)) /\ UNCHANGED <<varsJ, varsM, ns, cc, sv, syn>>

CanGrow(d, grow) == grow => al.ino[d].size < MaxDirBlocks

AWrite(i, bn) ==
  /\ al.ino[i].alloc /\ ~al.ino[i].dir
  /\ LET wrote(A1) == IF A1.fail # "" THEN A1
                      ELSE [A1 EXCEPT !.blk[A1.ret] = UserData,
                                      !.ino[i].size = Max({@, bn + 1})]
     IN ADone(wrote(Inode_getblock(AStart, i, bn, TRUE)), "write", i)

ATruncate(i, sz) ==
  /\ al.ino[i].alloc /\ ~al.ino[i].dir
  /\ ADone(Inode_truncate(AStart, i, sz), "truncate", i)

ACreate(d, i, grow) ==
  /\ al.ino[d].alloc /\ al.ino[d].dir /\ ~al.ino[i].alloc /\ CanGrow(d, grow)
  /\ LET made(A1) == IF A1.fail # "" THEN A1
                     ELSE [A1 EXCEPT !.ino[i] = [ZeroInode EXCEPT !.alloc = TRUE]]
     IN ADone(made(Inode_create(AStart, d, grow)), "create", i)

AMkdir(d, i, grow) ==
  /\ al.ino[d].alloc /\ al.ino[d].dir /\ ~al.ino[i].alloc /\ CanGrow(d, grow)
  /\ LET made(A1) == IF A1.fail # "" THEN A1
                     ELSE Inode_create([A1 EXCEPT !.ino[i] = [ZeroInode EXCEPT !.alloc = TRUE,
                                                                             !.dir = TRUE]],
                                       i, TRUE)
     IN ADone(made(Inode_create(AStart, d, grow)), "mkdir", i)

AUnlink(i) ==
  /\ al.ino[i].alloc /\ ~al.ino[i].dir
  /\ ADone(Inode_clear(AStart, i), "unlink", i)

ARmdir(i) ==
  /\ al.ino[i].alloc /\ al.ino[i].dir /\ i # ROOT_INUMBER
  /\ ADone(Inode_clear(AStart, i), "rmdir", i)

\* mkfs: the root directory with one block; every other data block is free.
InitA ==
  /\ al = [ino |-> [i \in AInums |->
                      IF i = ROOT_INUMBER
                      THEN [alloc |-> TRUE, dir |-> TRUE, larg |-> FALSE,
                            addr |-> [ZeroAddr EXCEPT ![0] = datastart], size |-> 1]
                      ELSE ZeroInode],
           blk |-> [b \in ABlocks |-> IF b = datastart THEN UserData ELSE ZeroBlock],
           freemap |-> ABlocks \ {datastart}, freed |-> <<>>, last_balloc |-> 0,
           last |-> [op |-> "mkfs", nfreed |-> 0]]
  /\ IdleJ /\ IdleM /\ ns = <<>> /\ cc = <<>> /\ sv = <<>> /\ syn = <<>>

NextA ==
  \/ \E i \in AInums, bn \in 0 .. MAX_FILE_BLOCKS - 1 : AWrite(i, bn)
  \/ \E i \in AInums, sz \in 0 .. MAX_FILE_BLOCKS : ATruncate(i, sz)
  \/ \E d, i \in AInums, grow \in BOOLEAN : ACreate(d, i, grow)
  \/ \E d, i \in AInums, grow \in BOOLEAN : AMkdir(d, i, grow)
  \/ \E i \in AInums : AUnlink(i)
  \/ \E i \in AInums : ARmdir(i)

SpecA == InitA /\ [][NextA]_vars

(***************************************************************************)
(* Properties of the free map.                                             *)
(***************************************************************************)
\* The blocks a scan of the inodes finds, as Fsck::scan_blocks walks them.
Pointers(A, b) == {A.blk[b][k] : k \in BlkIdx} \ {0}

InodeBlocks(A, i) ==
  LET a == A.ino[i].addr
      top == {a[k] : k \in AddrIdx} \ {0}
      dbl == IF a[IADDR_SIZE - 1] = 0 THEN {} ELSE Pointers(A, a[IADDR_SIZE - 1])
  IN IF ~A.ino[i].alloc THEN {}
     ELSE IF ~A.ino[i].larg THEN top
     ELSE top \cup UNION {Pointers(A, a[k]) : k \in {j \in AddrIdx : j < IADDR_SIZE - 1 /\ a[j] # 0}}
              \cup dbl \cup UNION {Pointers(A, b) : b \in dbl}

Reachable(A) == UNION {InodeBlocks(A, i) : i \in AInums}

V6Flags == {"V6_RDONLY", "V6_MUST_BE_CLEAN", "V6_NOLOG", "V6_MKLOG", "V6_REPLAY"}

Bits == {0, 1}

\* the fields of a V6FS that is not there
NoSb == [s_dirty |-> 0, s_uselog |-> 0, s_fmod |-> 0]

SStart ==
  [d |-> sv.d, sb |-> sv.sb, open |-> sv.open, readonly |-> sv.readonly,
   unclean |-> sv.unclean, log |-> sv.log, fail |-> "", ws |-> <<>>]

\* writeblock(&superblock_, SUPERBLOCK_SECTOR)
write_sb(V) ==
  IF V.fail # "" THEN V
  ELSE [V EXCEPT !.ws = Append(@, [V.d EXCEPT !.s_dirty = V.sb.s_dirty,
                                               !.s_uselog = V.sb.s_uselog,
                                               !.s_fmod = V.sb.s_fmod]),
                 !.d = [V.d EXCEPT !.s_dirty = V.sb.s_dirty,
                                   !.s_uselog = V.sb.s_uselog,
                                   !.s_fmod = V.sb.s_fmod]]

\* V6FS::sync: the superblock is written only without a log; the write of a
\* read-only V6FS fails and the exception is caught.
S_sync(V) ==
  LET written(V1) == IF V1.readonly THEN V1 ELSE write_sb(V1)
  IN IF V.fail # "" THEN V
     ELSE IF ~V.log /\ V.sb.s_fmod = 1 THEN written([V EXCEPT !.sb.s_fmod = 0])
     ELSE V

\* V6Log::create writes the log header, then the superblock with s_uselog.
S_create(V) ==
  IF V.fail # "" THEN V
  ELSE write_sb([V EXCEPT !.d.hdr_ok = TRUE, !.sb.s_uselog = 1])

\* V6Replay::replay, for what it does to the superblock and to unclean_.
S_replay(V) ==
  LET done(V1) ==
        IF V1.fail # "" THEN V1 ELSE [V1 EXCEPT !.sb.s_fmod = 1, !.unclean = FALSE]
  IN IF V.fail # "" THEN V
     ELSE done(S_sync([V EXCEPT !.sb.s_fmod = 1]))

\* V6FS::V6FS
S_ctor(V, flags) ==
  LET ro == "V6_RDONLY" \in flags
      V0 == [V EXCEPT !.open = TRUE, !.readonly = ro, !.log = FALSE,
                      !.unclean = V.d.s_dirty = 1,
                      !.sb = [s_dirty |-> V.d.s_dirty,
                              s_uselog |-> IF V.d.s_uselog = 1 /\ ~V.d.hdr_ok THEN 0
                                           ELSE V.d.s_uselog,
                              s_fmod |-> IF ro THEN V.d.s_fmod ELSE 0]]
      marked(V3) ==
        IF V3.fail # "" \/ ro THEN V3 ELSE write_sb([V3 EXCEPT !.sb.s_dirty = 1])
      opened(V2) ==
        IF V2.fail # "" \/ V2.sb.s_uselog = 0 THEN V2
        ELSE [(IF V2.unclean THEN S_replay(V2) ELSE V2) EXCEPT !.log = TRUE]
      logged(V1) ==
        IF "V6_NOLOG" \in flags \/ ro THEN V1
        ELSE opened(IF V1.sb.s_uselog = 0 /\ "V6_MKLOG" \in flags THEN S_create(V1) ELSE V1)
  IN IF /\ "V6_MUST_BE_CLEAN" \in flags /\ V0.unclean
        /\ (V0.sb.s_uselog = 0 \/ ~("V6_REPLAY" \in flags /\ "V6_NOLOG" \notin flags))
     THEN [V EXCEPT !.fail = "throw"]
     ELSE marked(logged(V0))

\* V6FS::~V6FS; the checkpoint of the log does not write the superblock.
S_dtor(V) ==
  LET closed(V2) == [V2 EXCEPT !.open = FALSE]
      cleared(V1) ==
        write_sb([V1 EXCEPT !.log = FALSE, !.sb.s_fmod = 0,
                            !.sb.s_dirty = IF ~V1.unclean THEN 0 ELSE @])
  IN IF V.fail # "" THEN V
     ELSE IF V.readonly THEN closed(V)
     ELSE closed(cleared(IF V.log THEN V ELSE S_sync(V)))

\* fsck(fs, write), for what it does to the superblock and to unclean_.
\* Fsck::apply clears s_uselog, frees the free blocks (s_fmod) and syncs.
S_fsck(V, write) ==
  LET marked(V1) ==
        IF V1.fail # "" THEN V1
        ELSE [V1 EXCEPT !.sb.s_fmod = 1, !.sb.s_dirty = 0, !.unclean = FALSE]
  IN IF V.fail # "" THEN V
     ELSE IF write THEN marked(S_sync([V EXCEPT !.sb.s_uselog = 0, !.sb.s_fmod = 1]))
     ELSE [V EXCEPT !.sb.s_fmod = 0]

\* The handler ran to its end, or the machine stopped after one of its writes
\* but the last; a constructor that throws leaves no V6FS.
SDone(V, op, flags) ==
  \/ /\ V.fail = ""
     /\ sv' = [d |-> V.d, sb |-> IF V.open THEN V.sb ELSE NoSb, open |-> V.open,
               readonly |-> V.open /\ V.readonly, unclean |-> V.open /\ V.unclean,
               log |-> V.open /\ V.log,
               last |-> [op |-> op, flags |-> flags,
                         writable |-> IF op = "close" THEN ~sv.readonly
                                      ELSE "V6_RDONLY" \notin flags]]
  \/ /\ V.fail # ""
     /\ sv' = [sv EXCEPT !.last = [op |-> "error", flags |-> flags, writable |-> FALSE]]
  \/ \E j \in 1 .. Len(V.ws) - 1 :
       sv' = [d |-> V.ws[j], sb |-> NoSb, open |-> FALSE, readonly |-> FALSE,
              unclean |-> FALSE, log |-> FALSE,
              last |-> [op |-> "crash", flags |-> flags, writable |-> FALSE]]

SOpen(flags) ==
  /\ ~sv.open
  /\ SDone(S_ctor(SStart, flags), "open", flags)
  /\ UNCHANGED <<varsJ, varsM, ns, cc, al, syn>>

SClose ==
  /\ sv.open
  /\ SDone(S_dtor(SStart), "close", {})
  /\ UNCHANGED <<varsJ, varsM, ns, cc, al, syn>>

\* balloc, bfree, ialloc and ifree set s_fmod
SModify ==
  /\ sv.open /\ ~sv.readonly /\ sv.sb.s_fmod = 0
  /\ SDone([SStart EXCEPT !.sb.s_fmod = 1], "modify", {})
  /\ UNCHANGED <<varsJ, varsM, ns, cc, al, syn>>

SSync ==
  /\ sv.open
  /\ SDone(S_sync(SStart), "sync", {})
  /\ UNCHANGED <<varsJ, varsM, ns, cc, al, syn>>

\* main of fsck: the V6FS lives for the call of fsck(fs, opt_yes)
SFsck(opt_yes) ==
  /\ ~sv.open
  /\ LET flags == {"V6_NOLOG"} \cup (IF opt_yes THEN {} ELSE {"V6_RDONLY"})
     IN SDone(S_dtor(S_fsck(S_ctor(SStart, flags), opt_yes)), "fsck", flags)
  /\ UNCHANGED <<varsJ, varsM, ns, cc, al, syn>>

SCrash ==
  /\ sv.open
  /\ sv' = [sv EXCEPT !.open = FALSE, !.readonly = FALSE, !.unclean = FALSE,
                      !.log = FALSE, !.sb = NoSb,
                      !.last = [op |-> "crash", flags |-> {}, writable |-> FALSE]]
  /\ UNCHANGED <<varsJ, varsM, ns, cc, al, syn>>

\* An image made by mkfs, or one with a log, clean.
InitS ==
  /\ \E uselog \in Bits :
       sv = [d |-> [s_dirty |-> 0, s_uselog |-> uselog, s_fmod |-> 0, hdr_ok |-> uselog = 1],
             sb |-> NoSb,
             open |-> FALSE, readonly |-> FALSE, unclean |-> FALSE, log |-> FALSE,
             last |-> [op |-> "init", flags |-> {}, writable |-> FALSE]]
  /\ IdleJ /\ IdleM /\ ns = <<>> /\ cc = <<>> /\ al = <<>> /\ syn = <<>>

NextS ==
  \/ \E flags \in SUBSET V6Flags : SOpen(flags)
  \/ SClose
  \/ SModify
  \/ SSync
  \/ \E opt_yes \in BOOLEAN : SFsck(opt_yes)
  \/ SCrash

SpecS == InitS /\ [][NextS]_vars

\* C19: the superblock on the disk has s_dirty = 1 at all times between the
\* completion of a writable open and shutdown, and s_dirty = 0 once a volume
\* opened for writing has been shut down cleanly.
C19_DirtyWhileOpen ==
  /\ (sv.open /\ ~sv.readonly) => sv.d.s_dirty = 1
  /\ (sv.last.op = "close" /\ sv.last.writable) => sv.d.s_dirty = 0


(***************************************************************************)
(* The station (P3/caltrain.cc).  Every member function runs under mutex_, *)
(* so a thread's step is the code between two points where it gives the    *)
(* mutex up: the entry of the function up to its first wait or its return, *)
(* and a wake-up from a wait up to the next wait or the return.  A thread  *)
(* blocked in a condition variable goes on only after a notify_all has     *)
(* reached it (seat: the passengers notified on seat_, full: the train     *)
(* notified on full_).  One train is in the station at a time.  History:   *)
(* seats is the count the loading train came with, boarded the passengers  *)
(* that returned from wait_for_train() since it arrived, left the state of *)
(* the platform when load_train() last returned, blocked the state of the  *)
(* platform when load_train() last began to wait.                          *)
(***************************************************************************)
NPassengers == 3
MaxSeats == 2
MaxTrains == 2

Passengers == 1 .. NPassengers

At(St, where) == {p \in Passengers : St.pc[p] = where}

Platform(St) ==
  [waiting |-> Cardinality(At(St, "waiting")),
   boarding |-> Cardinality(At(St, "boarding")),
   free |-> St.seats - St.boarded]

NoPlatform == [waiting |-> 0, boarding |-> 0, free |-> 0]

Station_ctor ==
  [waiting_num |-> 0, ready_to_aboard |-> 0, available_seat |-> 0,
   pc |-> [p \in Passengers |-> "idle"], seat |-> {}, full |-> FALSE,
   train |-> "away", trains |-> 0, seats |-> 0, boarded |-> 0,
   returns |-> 0, left |-> NoPlatform, blocked |-> NoPlatform]

\* load_train() leaves: the lock is released and the train departs.
train_returns(St) ==
  [St EXCEPT !.train = "away", !.full = FALSE, !.returns = @ + 1,
             !.left = Platform(St)]

load_train(St, available) ==
  LET added == [St EXCEPT !.available_seat = @ + available,
                          !.seat = IF St.available_seat + available # 0
                                   THEN At(St, "waiting") ELSE @,
                          !.train = "loading", !.trains = @ + 1,
                          !.seats = available, !.boarded = 0, !.full = FALSE]
  IN IF added.waiting_num = 0 \/ added.available_seat = 0
     THEN train_returns(added)
     ELSE [added EXCEPT !.blocked = Platform(added)]

\* full_.wait(lock) returns and the loop tests its condition again.
load_train_wakes(St) ==
  IF St.waiting_num = 0 \/ St.available_seat = 0
  THEN train_returns(St)
  ELSE [St EXCEPT !.full = FALSE]

boards(St, p) ==
  [St EXCEPT !.pc[p] = "boarding", !.seat = @ \ {p},
             !.boarded = IF St.train = "loading" THEN @ + 1 ELSE @]

wait_for_train(St, p) ==
  LET arrived == [St EXCEPT !.waiting_num = @ + 1]
  IN IF arrived.available_seat # 0
     THEN boards(arrived, p)
     ELSE [arrived EXCEPT !.pc[p] = "waiting"]

\* seat_.wait(lock) returns and the loop tests its condition again.
wait_for_train_wakes(St, p) ==
  IF St.available_seat # 0
  THEN boards(St, p)
  ELSE [St EXCEPT !.seat = @ \ {p}]

seated(St, p) ==
  LET sat == [St EXCEPT !.waiting_num = @ - 1, !.available_seat = @ - 1,
                        !.pc[p] = "seated"]
  IN IF sat.available_seat = 0 \/ sat.waiting_num = 0
     THEN [sat EXCEPT !.full = (sat.train = "loading")]
     ELSE sat

CalDone(St) ==
  /\ syn' = St
  /\ UNCHANGED <<varsJ, varsM, ns, cc, al, sv>>

LoadTrain(available) ==
  /\ syn.train = "away" /\ syn.trains < MaxTrains
  /\ CalDone(load_train(syn, available))

LoadTrainWakes ==
  /\ syn.train = "loading" /\ syn.full
  /\ CalDone(load_train_wakes(syn))

WaitForTrain(p) ==
  /\ syn.pc[p] = "idle"
  /\ CalDone(wait_for_train(syn, p))

WaitForTrainWakes(p) ==
  /\ syn.pc[p] = "waiting" /\ p \in syn.seat
  /\ CalDone(wait_for_train_wakes(syn, p))

Seated(p) ==
  /\ syn.pc[p] = "boarding"
  /\ CalDone(seated(syn, p))

InitCal ==
  /\ syn = Station_ctor
  /\ IdleJ /\ IdleM /\ ns = <<>> /\ cc = <<>> /\ al = <<>> /\ sv = <<>>

NextCal ==
  \/ \E available \in 0 .. MaxSeats : LoadTrain(available)
  \/ LoadTrainWakes
  \/ \E p \in Passengers : WaitForTrain(p)
  \/ \E p \in Passengers : WaitForTrainWakes(p)
  \/ \E p \in Passengers : Seated(p)

SpecCal == InitCal /\ [][NextCal]_vars

\* C23: for each train, the number of passengers that return from
\* wait_for_train() while the train is loading never exceeds the count of free
\* seats the train passed to load_train().
C23_NoMoreBoardersThanSeats ==
  syn.train = "loading" => syn.boarded <= syn.seats

\* C24: load_train() returns only when every passenger that began to board has
\* called seated() and no free seat remains or no passenger is waiting, and it
\* does not wait at all when the train has no free seat or nobody is waiting
\* (and nobody is in the middle of boarding).
C24_TrainLeavesWhenLoaded ==
  /\ syn.returns > 0 =>
       /\ syn.left.boarding = 0
       /\ syn.left.free <= 0 \/ syn.left.waiting = 0
  /\ syn.train = "loading" =>
       \/ syn.blocked.boarding > 0
       \/ syn.blocked.free > 0 /\ syn.blocked.waiting > 0


(***************************************************************************)
(* The party (P3/party.cc).  meet() runs under mutex_: a guest's step is   *)
(* the code from the entry to the wait or the return, and from a wake-up   *)
(* to the next wait or the return.  A guest with signs (my, other) waits   *)
(* on cond_map_[other][my]; notify_one wakes one of the guests that wait   *)
(* on the condition variable, any of them.  History: sign holds the signs  *)
(* a guest came with, key the indices meet() computed for it, got the name *)
(* meet() returned to it (0: none yet), order the guests by arrival.       *)
(***************************************************************************)
NUM_SIGNS == 2
NGuests == 4

Guests == 1 .. NGuests
Signs == 0 .. (NUM_SIGNS - 1)
MapIdx == 0 .. (2 * NUM_SIGNS)

Party_ctor ==
  [party_map |-> [i \in MapIdx |-> [j \in MapIdx |-> <<>>]],
   same_index |-> [x \in Signs |-> 0],
   pc |-> [g \in Guests |-> "out"],
   sign |-> [g \in Guests |-> <<0, 0>>],
   key |-> [g \in Guests |-> <<0, 0>>],
   got |-> [g \in Guests |-> 0],
   woken |-> {},
   order |-> <<>>]

\* The guests blocked in cond_map_[i][j].wait that no notify has reached.
Waiters(P, i, j) ==
  {w \in Guests : P.pc[w] = "waiting" /\ P.key[w] = <<j, i>> /\ w \notin P.woken}

\* The loop of meet() and what follows it, for a guest with indices (my, other)
meet_loop(P, g) ==
  LET my == P.key[g][1]
      other == P.key[g][2]
  IN IF Len(P.party_map[other][my]) = 0
     THEN [P EXCEPT !.pc[g] = "waiting", !.woken = @ \ {g}]
     ELSE [P EXCEPT !.got[g] = Head(P.party_map[other][my]),
                    !.party_map[other][my] = Tail(@),
                    !.pc[g] = "done", !.woken = @ \ {g}]

\* meet(my_name, my_sign, other_sign); w is the guest notify_one wakes (0 when
\* nobody waits on the condition variable).
meet(P, g, my_sign, other_sign, w) ==
  LET same == my_sign = other_sign
      n == P.same_index[my_sign] + 1
      my == IF same /\ n % 2 # 0 THEN my_sign + NUM_SIGNS ELSE my_sign
      other == IF same /\ n % 2 = 0 THEN other_sign + NUM_SIGNS ELSE other_sign
      pushed == [P EXCEPT !.same_index[my_sign] = IF same THEN n ELSE @,
                          !.party_map[my][other] = Append(@, g),
                          !.woken = IF w = 0 THEN @ ELSE @ \cup {w},
                          !.sign[g] = <<my_sign, other_sign>>,
                          !.key[g] = <<my, other>>,
                          !.order = Append(@, g)]
  IN meet_loop(pushed, g)

PartyDone(P) ==
  /\ syn' = P
  /\ UNCHANGED <<varsJ, varsM, ns, cc, al, sv>>

Meet(g, my_sign, other_sign) ==
  /\ syn.pc[g] = "out"
  /\ \A h \in Guests : h < g => syn.pc[h] # "out"
  /\ LET same == my_sign = other_sign
         n == syn.same_index[my_sign] + 1
         my == IF same /\ n % 2 # 0 THEN my_sign + NUM_SIGNS ELSE my_sign
         other == IF same /\ n % 2 = 0 THEN other_sign + NUM_SIGNS ELSE other_sign
     IN \E w \in IF Waiters(syn, my, other) = {} THEN {0} ELSE Waiters(syn, my, other) :
          PartyDone(meet(syn, g, my_sign, other_sign, w))

MeetWakes(g) ==
  /\ syn.pc[g] = "waiting" /\ g \in syn.woken
  /\ PartyDone(meet_loop(syn, g))

InitParty ==
  /\ syn = Party_ctor
  /\ IdleJ /\ IdleM /\ ns = <<>> /\ cc = <<>> /\ al = <<>> /\ sv = <<>>

NextParty ==
  \/ \E g \in Guests, my_sign, other_sign \in Signs : Meet(g, my_sign, other_sign)
  \/ \E g \in Guests : MeetWakes(g)

SpecParty == InitParty /\ [][NextParty]_vars

\* The place of guest g among the guests that arrived with the same indices.
Rank(P, g) ==
  Cardinality({k \in 1 .. Len(P.order) :
                 /\ P.key[P.order[k]] = P.key[g]
                 /\ k <= CHOOSE m \in 1 .. Len(P.order) : P.order[m] = g})

\* C25: matching is mutual and sign-correct: when meet() has returned h to g,
\* h came with the signs g asked for and asked for the signs of g, meet()
\* returns g to h and to nobody else, and no guest is matched to two guests.
C25_MutualMatch ==
  \A g \in Guests :
    syn.got[g] # 0 =>
      LET h == syn.got[g]
      IN /\ syn.sign[h] = <<syn.sign[g][2], syn.sign[g][1]>>
         /\ syn.got[h] \in {0, g}
         /\ \A f \in Guests \ {g} : syn.got[f] # h

\* C26: guests that came with the same signs are matched in the order of their
\* arrival: the n-th guest of a kind gets the n-th guest of the opposite kind,
\* and no meet() returns a guest that has not arrived.
C26_ArrivalOrder ==
  \A g \in Guests :
    syn.got[g] # 0 =>
      /\ syn.pc[syn.got[g]] # "out"
      /\ Rank(syn, syn.got[g]) = Rank(syn, g)


(***************************************************************************)
(* User-level threads and the Mutex (P2/thread.cc, P2/sync.cc).  One       *)
(* thread runs at a time; the others are in thread_queue or blocked.  The  *)
(* bodies of lock() and unlock() run with interrupts disabled, so each is  *)
(* one step of the running thread, and a timer preemption is a yield()     *)
(* between two of them.  A thread blocked in lock() resumes after its      *)
(* swtch() when it is taken from thread_queue, and lock() returns then.    *)
(* pc: "out" outside the critical section, "blocked" inside lock(), "in"   *)
(* after lock() has returned and before unlock().  History: blocked_order  *)
(* lists the threads in the order in which they blocked, handed the        *)
(* threads in the order in which unlock() passed the mutex on, nlock the   *)
(* calls of lock().                                                        *)
(***************************************************************************)
NThreads == 3
MaxLocks == 5

Threads == 1 .. NThreads

\* Thread::schedule
schedule(Th, t) ==
  IF \E k \in 1 .. Len(Th.thread_queue) : Th.thread_queue[k] = t
  THEN Th
  ELSE [Th EXCEPT !.thread_queue = Append(@, t)]

\* Thread::swtch; the thread switched to goes on where it stopped.
swtch(Th) ==
  LET next == Head(Th.thread_queue)
  IN [Th EXCEPT !.current_thread = next,
                !.thread_queue = Tail(@),
                !.pc[next] = IF @ = "blocked" THEN "in" ELSE @]

yield(Th) == swtch(schedule(Th, Th.current_thread))

Mutex_lock(Th, t) ==
  IF Th.curr = t THEN [Th EXCEPT !.err = "SyncError"]
  ELSE IF Th.lock = 0
    THEN [Th EXCEPT !.lock = 1, !.curr = t, !.pc[t] = "in", !.nlock = @ + 1]
  ELSE swtch([Th EXCEPT !.block_queue = Append(@, t), !.pc[t] = "blocked",
                        !.blocked_order = Append(@, t), !.nlock = @ + 1])

\* Mutation of unlock: the mutex goes to the thread that blocked last.
Mutex_unlock_lifo(Th, t) ==
  IF Th.curr # t THEN [Th EXCEPT !.err = "SyncError"]
  ELSE IF Len(Th.block_queue) = 0
    THEN [Th EXCEPT !.lock = 0, !.curr = 0, !.pc[t] = "out"]
  ELSE schedule([Th EXCEPT !.curr = Th.block_queue[Len(Th.block_queue)],
                           !.block_queue = SubSeq(@, 1, Len(@) - 1),
                           !.pc[t] = "out",
                           !.handed = Append(@, Th.block_queue[Len(Th.block_queue)])],
                Th.block_queue[Len(Th.block_queue)])

Mutex_unlock(Th, t) ==
  IF Th.curr # t THEN [Th EXCEPT !.err = "SyncError"]
  ELSE IF Len(Th.block_queue) = 0
    THEN [Th EXCEPT !.lock = 0, !.curr = 0, !.pc[t] = "out"]
  ELSE schedule([Th EXCEPT !.curr = Head(Th.block_queue),
                           !.block_queue = Tail(@),
                           !.pc[t] = "out",
                           !.handed = Append(@, Head(Th.block_queue))],
                Head(Th.block_queue))

ThDone(Th) ==
  /\ syn' = Th
  /\ UNCHANGED <<varsJ, varsM, ns, cc, al, sv>>

Lock ==
  /\ syn.pc[syn.current_thread] = "out" /\ syn.nlock < MaxLocks
  /\ syn.lock = 0 \/ syn.thread_queue # <<>>
  /\ ThDone(Mutex_lock(syn, syn.current_thread))

Unlock ==
  /\ syn.pc[syn.current_thread] = "in"
  /\ ThDone(Mutex_unlock(syn, syn.current_thread))

\* Thread::yield, called by the thread or by preempt_handler
Yield ==
  /\ syn.pc[syn.current_thread] \in {"out", "in"}
  /\ ThDone(yield(syn))

\* The initial thread runs; the others have been created.
InitTh ==
  /\ syn = [lock |-> 0, curr |-> 0, block_queue |-> <<>>,
            current_thread |-> 1, thread_queue |-> [k \in 1 .. NThreads - 1 |-> k + 1],
            pc |-> [t \in Threads |-> "out"], err |-> "",
            blocked_order |-> <<>>, handed |-> <<>>, nlock |-> 0]
  /\ IdleJ /\ IdleM /\ ns = <<>> /\ cc = <<>> /\ al = <<>> /\ sv = <<>>

NextTh == Lock \/ Unlock \/ Yield

SpecTh == InitTh /\ [][NextTh]_vars

\* C27: at most one thread owns the Mutex (is between the return of lock() and
\* its unlock()), that thread is the one the Mutex names, and unlock() passes
\* the Mutex to the blocked threads in the order in which they blocked.
C27_MutexFifo ==
  /\ Cardinality({t \in Threads : syn.pc[t] = "in"}) <= 1
  /\ \A t \in Threads : syn.pc[t] = "in" => syn.lock = 1 /\ syn.curr = t
  /\ syn.err = ""
  /\ Len(syn.handed) <= Len(syn.blocked_order)
  /\ syn.handed = SubSeq(syn.blocked_order, 1, Len(syn.handed))

C27_Witness ==
  /\ Len(syn.handed) >= 2 /\ Len(syn.blocked_order) >= 3
  /\ syn.handed[1] # syn.handed[2]
  /\ syn.blocked_order[2] = syn.handed[2] /\ syn.blocked_order[3] = syn.handed[1]
  /\ syn.pc[syn.handed[2]] = "in"

(***************************************************************************)
(* V6Log::le over all pairs of sequence numbers (log.hh).  lsn_t has       *)
(* LsnBits bits in the model; the unsigned subtraction is taken modulo     *)
(* LsnMod.                                                                 *)
(***************************************************************************)
Lsns == 0 .. LsnMod - 1

InitLe ==
  /\ \E a \in Lsns, b \in Lsns :
       input = [a |-> a, b |-> b, called |-> FALSE, ret |-> FALSE]
  /\ cache = EmptyCache /\ vlog = NoLog /\ disk = <<>> /\ up = FALSE
  /\ oracle = <<>> /\ nlog = 0 /\ last = <<>> /\ txs = <<>>
  /\ IdleM /\ ns = <<>> /\ cc = <<>> /\ al = <<>> /\ sv = <<>> /\ syn = <<>>

Le ==
  /\ ~input.called
  /\ input' = [input EXCEPT !.called = TRUE, !.ret = le(input.a, input.b)]
  /\ UNCHANGED <<cache, vlog, disk, up, oracle, nlog, last, txs, mm, mh, ns, cc, al,
                 sv, syn>>

SpecLe == InitLe /\ [][Le]_vars

Distance == (input.b - input.a) % LsnMod

\* C40 as stated: le(a, b) is true exactly when (b - a) mod 2^w is at most
\* 2^(w-1), w the width of lsn_t.
C40_Original == input.called => (input.ret <=> Distance <= LsnMod \div 2)

\* C40, amended: le(a, b) is true exactly when (b - a) mod 2^w is at most
\* 2^(w-1) - 1: two sequence numbers half the range apart are not ordered.
C40_HalfRange == input.called => (input.ret <=> Distance <= LsnMod \div 2 - 1)

C40_Witness == input.called /\ Distance = LsnMod \div 2 /\ ~input.ret
====
